---- MODULE Spec2Model ----
(***************************************************************************)
(* A model of the client side of AutoSyncClaude: the watcher's debouncer,  *)
(* the sync engine, the rule engine, the retry executor, the offline queue *)
(* and the network supervisor.  Each component has its own variables and   *)
(* its own specification; the other components stay idle meanwhile.        *)
(***************************************************************************)
EXTENDS Integers, Sequences, FiniteSets, TLC

VARIABLES
    \* ---- watcher.rs: EventDeduplicator -------------------------------
    clock,            \* time in ticks
    debounce_delay,   \* EventDeduplicator.debounce_delay, in ticks
    pending_events,   \* path -> id of the debounce task of its PendingEvent (0: no entry)
    timers,           \* the debounce tasks spawned so far, in spawn order
    event_tx,         \* what has been sent on the downstream channel
    adder,            \* the add_to_pending call in progress
    \* ---- sync.rs: SyncEngine ------------------------------------------
    files,            \* path -> the bytes of the local file
    sync_states,      \* SyncEngine.sync_states: path -> FileSyncState (NoState: no entry)
    sync_tasks,       \* caller -> the sync_file call it has in flight
    resolver,         \* the ConflictResolver the engine was built with
    conflict_files,   \* file name -> the bytes of a conflict file (None: not written)
    \* ---- rules.rs: RuleEngine -----------------------------------------
    rules,            \* RuleEngine.rules
    rule_query,       \* the last should_sync call and what it returned
    \* ---- retry.rs: RetryExecutor::execute -----------------------------
    retry_config,     \* RetryExecutor.config
    strategy,         \* RetryExecutor.strategy
    re_pc,            \* where execute is: "call", "sleep" or "done"
    attempt,          \* the loop variable of execute
    outcomes,         \* what each invocation of the operation returned
    slept,            \* the delays execute has slept, in order
    result,           \* what execute returned (None: not yet)
    \* ---- retry.rs: RetryConfig::calculate_delay -----------------------
    delay_config,     \* the RetryConfig calculate_delay is called on
    delay_prev,       \* the call of calculate_delay before the last
    delay_last,       \* the last call of calculate_delay
    \* ---- retry.rs: OfflineQueue ---------------------------------------
    oq_max_size,      \* OfflineQueue.max_size
    oq_queue,         \* OfflineQueue.queue, the Vec under the mutex
    oq_calls,         \* caller -> the call it has made and what it returned
    \* ---- network.rs: NetworkRecoveryManager ---------------------------
    status,           \* NetworkRecoveryManager.status
    max_reconnect_attempts,
    offline_queue,    \* the Vec of NetworkRecoveryManager.offline_queue
    net_tasks,        \* task -> where it is, its attempts, its drained operations
    next_op,          \* the operations are numbered in the order of enqueueing
    enqueued_offline, \* the operations enqueued while the status was Offline
    processed,        \* the operations given to process_operation, in order
    \* ---- network.rs: execute_with_recovery ----------------------------
    recovery,         \* what the call of execute_with_recovery has seen and returned
    \* ---- connection_pool.rs: ConnectionPool ---------------------------
    pool_max_connections, \* PoolConfig.max_connections
    semaphore,        \* the permits available in ConnectionPool.semaphore
    idle_connections, \* the Vec under the idle mutex, last element popped first
    active_connections, \* conn_id -> ConnectionWrapper (NoConn: no entry)
    idle_lock,        \* who holds the idle mutex (None: free)
    active_lock,      \* who holds the write lock of the active map (None: free)
    is_shutdown,      \* ConnectionPool.is_shutdown
    shutdown_pc,      \* where the call of shutdown is
    pool_calls,       \* caller -> where its acquire is and what it returned
    pooled,           \* handle -> the PooledConnection and its release task
    channels,         \* the number of channels created so far
    \* ---- transfer.rs: TransferManager ---------------------------------
    tm_config,        \* max_concurrent_uploads and max_concurrent_downloads
    tm_semaphores,    \* manager -> the permits left in its two semaphores
    transfers,        \* task -> the upload_file or download_file call it runs
    tm_batch,         \* the tasks the batch call in progress waits for
    tm_file,          \* the bytes of the local file of the requests
    tm_server,        \* the bytes the server holds for the file (None: nothing)
    \* ---- conflict.rs: merge_json_values_without_base ------------------
    json_merge,       \* the last call of merge_json_values_without_base
    \* ---- conflict.rs: ConflictResolver::resolve -----------------------
    resolution,       \* the call of resolve: its resolver, its arguments, its result
    \* ---- config.rs: SyncConfig, as the sync engine filters with it ----
    sync_config,      \* exclude_dirs, exclude_patterns, include_types, rules
    \* ---- server cache.rs: the change queue of one user (Redis list) ----
    change_list,      \* the list changes:<user>, head first
    push_calls,       \* per caller of push_file_change: pc, item, result
    next_change,      \* the next notification pushed
    pop_count,        \* calls of get_file_changes so far
    trimmed,          \* the items LTRIM has removed, in order
    \* ---- server notification_service.rs / cache.rs: online set and fan-out ----
    g_now,            \* seconds since the server started
    online_set,       \* members of the Redis set device:online:<user>
    online_expire_at, \* when the key of that set expires (Never: no TTL)
    last_online,      \* per device, when it last called device_online
    change_queue,     \* the list changes:<user> of notifications
    pushed_count,     \* notifications pushed so far
    sub,              \* per device, its SubscribeChanges stream and task
    hb,               \* per device, its Heartbeat stream and task
    delivered,        \* per device, the notifications sent on its streams
    \* ---- server grpc/sync_service.rs: upload_file ----
    upload_calls,     \* per device, its UploadFile call: pc, metadata, data, result
    blobs,            \* the object store: records of key and data
    versions,         \* the version records, in the order they were saved
    upload_changes,   \* the notifications upload_file has pushed
    upload_responses, \* the successful responses, in the order they were sent
    uploads_started,  \* UploadFile calls so far
    \* ---- watcher.rs: FileWatcher::spawn, the notify callback ----
    os_events,        \* the events the callback has received, in order
    dedup_lock,       \* who holds the mutex around the EventDeduplicator
    \* ---- connection_pool.rs: ConnectionPoolManager ---------------------
    pools,            \* server address -> id of the pool in the map, 0 if none
    pools_readers,    \* the callers that hold a read guard of the map's lock
    mgr_calls,        \* caller -> position in get_or_create_pool / shutdown_all
    pools_created,    \* pool id -> server address it was created for, or None
    health_checks,    \* pool id -> number of health-check tasks spawned for it
    pools_shutdown    \* the ids of the pools whose shutdown has run

wVars == <<clock, debounce_delay, pending_events, timers, event_tx, adder>>
sVars == <<files, sync_states, sync_tasks, resolver, conflict_files>>

rVars == <<rules, rule_query>>

eVars == <<retry_config, strategy, re_pc, attempt, outcomes, slept, result>>

dVars == <<delay_config, delay_prev, delay_last>>

qVars == <<oq_max_size, oq_queue, oq_calls>>

nVars == <<status, max_reconnect_attempts, offline_queue, net_tasks, next_op,
           enqueued_offline, processed>>

xVars == <<recovery>>

pVars == <<pool_max_connections, semaphore, idle_connections, active_connections, idle_lock, active_lock, is_shutdown, shutdown_pc, pool_calls, pooled, channels>>

tVars == <<tm_config, tm_semaphores, transfers, tm_batch, tm_file, tm_server>>

jVars == <<json_merge>>

cVars == <<resolution>>

fVars == <<sync_config>>

kVars == <<change_list, push_calls, next_change, pop_count, trimmed>>

gVars == <<g_now, online_set, online_expire_at, last_online, change_queue, pushed_count, sub, hb, delivered>>

uVars == <<upload_calls, blobs, versions, upload_changes, upload_responses, uploads_started>>

aVars == <<os_events, dedup_lock>>

mVars == <<pools, pools_readers, mgr_calls, pools_created, health_checks, pools_shutdown>>

vars == <<wVars, sVars, rVars, eVars, dVars, qVars, nVars, xVars, pVars, tVars, jVars, cVars, fVars, kVars, gVars, uVars, aVars, mVars>>

notW == <<sVars, rVars, eVars, dVars, qVars, nVars, xVars, pVars, tVars, jVars, cVars, fVars, kVars, gVars, uVars, aVars, mVars>>
notS == <<wVars, rVars, eVars, dVars, qVars, nVars, xVars, pVars, tVars, jVars, cVars, fVars, kVars, gVars, uVars, aVars, mVars>>
notR == <<wVars, sVars, eVars, dVars, qVars, nVars, xVars, pVars, tVars, jVars, cVars, fVars, kVars, gVars, uVars, aVars, mVars>>
notE == <<wVars, sVars, rVars, dVars, qVars, nVars, xVars, pVars, tVars, jVars, cVars, fVars, kVars, gVars, uVars, aVars, mVars>>
notD == <<wVars, sVars, rVars, eVars, qVars, nVars, xVars, pVars, tVars, jVars, cVars, fVars, kVars, gVars, uVars, aVars, mVars>>
notQ == <<wVars, sVars, rVars, eVars, dVars, nVars, xVars, pVars, tVars, jVars, cVars, fVars, kVars, gVars, uVars, aVars, mVars>>
notN == <<wVars, sVars, rVars, eVars, dVars, qVars, xVars, pVars, tVars, jVars, cVars, fVars, kVars, gVars, uVars, aVars, mVars>>
notX == <<wVars, sVars, rVars, eVars, dVars, qVars, pVars, tVars, jVars, cVars, fVars, kVars, gVars, uVars, aVars, mVars>>

None == "none"

Max(S) == CHOOSE x \in S : \A y \in S : y <= x

(***************************************************************************)
(* watcher.rs -- EventDeduplicator                                         *)
(***************************************************************************)
MaxEvents == 2
MaxClock == 3
MaxDelay == 2

WPaths == {"notes.md", "a.json"}

FileEventType == {"Create", "Modify", "Remove"}

AdderIdle == [pc |-> "idle", path |-> None, event_type |-> None, now |-> 0]

WInit ==
    /\ clock = 0
    /\ debounce_delay \in 1..MaxDelay
    /\ pending_events = [p \in WPaths |-> 0]
    /\ timers = <<>>
    /\ event_tx = <<>>
    /\ adder = AdderIdle

WIdle ==
    /\ clock = 0
    /\ debounce_delay = 1
    /\ pending_events = [p \in WPaths |-> 0]
    /\ timers = <<>>
    /\ event_tx = <<>>
    /\ adder = AdderIdle

\* JoinHandle::abort: a task that has not been polled since its sleep was
\* due is dropped at its await point; a task that is past the await (or has
\* finished) is not affected.
AbortTask(ts, h) ==
    IF ts[h].state = "sleeping"
    THEN [ts EXCEPT ![h].state = "aborted"]
    ELSE ts

\* add_to_pending, entry: the path is cloned and the time is read.
AddToPendingEnter(p, et) ==
    /\ adder.pc = "idle"
    /\ Len(timers) < MaxEvents
    /\ adder' = [pc |-> "abort", path |-> p, event_type |-> et, now |-> clock]
    /\ UNCHANGED <<clock, debounce_delay, pending_events, timers, event_tx, notW>>

\* add_to_pending: the previous debounce timer of the path is cancelled.
AddToPendingAbort ==
    /\ adder.pc = "abort"
    /\ timers' = IF pending_events[adder.path] # 0
                 THEN AbortTask(timers, pending_events[adder.path])
                 ELSE timers
    /\ adder' = [adder EXCEPT !.pc = "spawn"]
    /\ UNCHANGED <<clock, debounce_delay, pending_events, event_tx, notW>>

\* spawn_debounce_timer: the task that sleeps and then sends the event.
SpawnDebounceTimer(ts, ev, now) ==
    Append(ts, [path |-> ev.path, event_type |-> ev.event_type,
                state |-> "sleeping", deadline |-> now + debounce_delay,
                last_update |-> ev.now])

\* add_to_pending: the new timer is spawned and the entry is replaced.
AddToPendingInsert ==
    /\ adder.pc = "spawn"
    /\ timers' = SpawnDebounceTimer(timers, adder, clock)
    /\ pending_events' = [pending_events EXCEPT ![adder.path] = Len(timers) + 1]
    /\ adder' = AdderIdle
    /\ UNCHANGED <<clock, debounce_delay, event_tx, notW>>

\* The debounce task: its sleep is over and the task is polled again.
TimerWake(i) ==
    /\ timers[i].state = "sleeping"
    /\ clock >= timers[i].deadline
    /\ timers' = [timers EXCEPT ![i].state = "running"]
    /\ UNCHANGED <<clock, debounce_delay, pending_events, event_tx, adder, notW>>

\* The debounce task: the event is sent downstream.
TimerSend(i) ==
    /\ timers[i].state = "running"
    /\ event_tx' = Append(event_tx, [path |-> timers[i].path,
                                     event_type |-> timers[i].event_type,
                                     id |-> i])
    /\ timers' = [timers EXCEPT ![i].state = "done"]
    /\ UNCHANGED <<clock, debounce_delay, pending_events, adder, notW>>

Tick ==
    /\ clock < MaxClock
    /\ clock' = clock + 1
    /\ UNCHANGED <<debounce_delay, pending_events, timers, event_tx, adder, notW>>

WNext ==
    \/ \E p \in WPaths, et \in FileEventType : AddToPendingEnter(p, et)
    \/ AddToPendingAbort
    \/ AddToPendingInsert
    \/ \E i \in DOMAIN timers : TimerWake(i)
    \/ \E i \in DOMAIN timers : TimerSend(i)
    \/ Tick

\* ---- bursts ------------------------------------------------------------
\* The previous event of the same path (0: none).
PrevEvent(i) ==
    LET S == {j \in 1..(i - 1) : timers[j].path = timers[i].path}
    IN IF S = {} THEN 0 ELSE Max(S)

\* Event i reached add_to_pending less than debounce_delay after the
\* previous event of its path.
Linked(i) ==
    /\ PrevEvent(i) # 0
    /\ timers[i].last_update - timers[PrevEvent(i)].last_update < debounce_delay

RECURSIVE BurstStart(_)
BurstStart(i) == IF Linked(i) THEN BurstStart(PrevEvent(i)) ELSE i

Burst(i) == {j \in DOMAIN timers : BurstStart(j) = BurstStart(i)}

SentOf(B) == {k \in DOMAIN event_tx : event_tx[k].id \in B}

BurstClosed(B) ==
    /\ \A j \in B : timers[j].state \in {"done", "aborted"}
    /\ adder.pc = "idle"

\* C1: for every burst of two or more events on one path, each less than
\* debounce_delay after the previous one, exactly one event of the burst is
\* sent downstream, and it has the type of the last event of the burst.
C1_DebounceCoalescing ==
    \A i \in DOMAIN timers :
        LET B == Burst(i) IN
        Cardinality(B) >= 2 =>
            /\ Cardinality(SentOf(B)) <= 1
            /\ \A k \in SentOf(B) :
                   event_tx[k].event_type = timers[Max(B)].event_type
            /\ BurstClosed(B) => Cardinality(SentOf(B)) = 1

(***************************************************************************)
(* sync.rs -- SyncEngine                                                   *)
(***************************************************************************)
SPaths == {"notes.md", "run.sh"}

Contents == {"", "x"}

Callers == {"full_sync", "incremental"}

\* FileScanner::hash_file: the SHA-256 of the bytes, as a value that is
\* neither the bytes nor None and differs for different bytes.
Hash(bytes) == "sha256(" \o bytes \o ")"

Hashes == {Hash(c) : c \in Contents}

\* KeepNewer and AutoMerge take the same branches as Manual.
ResolutionStrategy == {"KeepLocal", "KeepRemote", "Manual"}

Resolvers ==
    [default_strategy : ResolutionStrategy,
     auto_merge_text : BOOLEAN,
     auto_merge_structured : BOOLEAN]

TaskIdle == [pc |-> "idle", path |-> None, local_hash |-> None]

\* Path::file_stem, for the paths of the model.
FileStem(path) ==
    CASE path = "notes.md" -> "notes"
      [] path = "run.sh" -> "run"
      [] OTHER -> path

\* Path::with_extension: the extension of the path is replaced.
WithExtension(path, extension) == FileStem(path) \o "." \o extension

\* The path with ".conflict" appended.
ConflictSuffixed(path) == path \o ".conflict"

\* The names a conflict file can have.
ConflictNames ==
    {WithExtension(p, "conflict") : p \in SPaths} \cup {ConflictSuffixed(p) : p \in SPaths}

\* No entry of the path in the sync_states map.
NoState == [local_hash |-> None, remote_hash |-> None, status |-> "Absent",
            bytes_at_record |-> None]

SInit ==
    /\ files \in [SPaths -> Contents]
    /\ sync_states = [p \in SPaths |-> NoState]
    /\ sync_tasks = [t \in Callers |-> TaskIdle]
    /\ resolver \in Resolvers
    /\ conflict_files = [n \in ConflictNames |-> None]

SIdle ==
    /\ files = [p \in SPaths |-> ""]
    /\ sync_states = [p \in SPaths |-> NoState]
    /\ sync_tasks = [t \in Callers |-> TaskIdle]
    /\ resolver = [default_strategy |-> "Manual", auto_merge_text |-> FALSE,
                   auto_merge_structured |-> FALSE]
    /\ conflict_files = [n \in ConflictNames |-> None]

\* rules.rs detect_file_type, for the paths of the model.
DetectFileType(path) ==
    CASE path = "notes.md" -> "text"
      [] path = "cfg.json" -> "json"
      [] OTHER -> "sh"

\* A FileSyncState.  bytes_at_record is not a field of the program: it
\* observes the bytes the file had when the state was put in the map.
SyncState(local, remote, sync_status, bytes) ==
    [local_hash |-> local, remote_hash |-> remote, status |-> sync_status,
     bytes_at_record |-> bytes]

\* update_sync_state: the state is inserted under the map's lock.
UpdateSyncState(states, path, state) == [states EXCEPT ![path] = state]

\* upload_file: the state it records, from the hash it was given.
UploadFileState(path, local_hash, bytes) ==
    SyncState(local_hash, local_hash, "Synced", bytes)

\* download_file: the state it records.
DownloadFileState(path, bytes) == SyncState(None, None, "Synced", bytes)

\* conflict.rs create_conflict_marker
ConflictMarker(local, remote) ==
    [kind |-> "Conflict",
     content |-> "<<<<<<< LOCAL\n" \o local \o "\n=======\n" \o remote \o "\n>>>>>>> REMOTE"]

Merged(content) == [kind |-> "Merged", content |-> content]

\* conflict.rs apply_default_strategy
ApplyDefaultStrategy(local, remote) ==
    CASE resolver.default_strategy = "KeepLocal" -> Merged(local)
      [] resolver.default_strategy = "KeepRemote" -> Merged(remote)
      [] OTHER -> ConflictMarker(local, remote)

\* conflict.rs resolve with ConflictType::ModifyModify and no base, as
\* resolve_and_sync calls it.  A JSON merge parses both sides, and the
\* bytes of the model are not JSON documents.
Resolve(path, local, remote) ==
    LET ft == DetectFileType(path) IN
    CASE ft \in {"text", "md", "rst", "txt"} -> ConflictMarker(local, remote)
      [] ft = "json" ->
            IF resolver.auto_merge_structured
            THEN [kind |-> "Err", content |-> None]
            ELSE ConflictMarker(local, remote)
      [] OTHER -> ApplyDefaultStrategy(local, remote)

\* The file is changed by its user.
EditFile(p, c) ==
    /\ files[p] # c
    /\ files' = [files EXCEPT ![p] = c]
    /\ UNCHANGED <<sync_states, sync_tasks, resolver, conflict_files, notS>>

\* sync_file, first part: the local hash is computed.
SyncFileHash(t, p) ==
    /\ sync_tasks[t].pc = "idle"
    /\ sync_tasks' = [sync_tasks EXCEPT ![t] =
            [pc |-> "hashed", path |-> p, local_hash |-> Hash(files[p])]]
    /\ UNCHANGED <<files, sync_states, resolver, conflict_files, notS>>

\* sync_file, second part: the remote state is a placeholder that answers
\* None, so the action is Upload; upload_file records the state.
SyncFileUpload(t) ==
    /\ sync_tasks[t].pc = "hashed"
    /\ LET p == sync_tasks[t].path
           remote_hash == None
       IN /\ remote_hash = None
          /\ sync_states' = UpdateSyncState(sync_states, p,
                 UploadFileState(p, sync_tasks[t].local_hash, files[p]))
    /\ sync_tasks' = [sync_tasks EXCEPT ![t] = TaskIdle]
    /\ UNCHANGED <<files, resolver, conflict_files, notS>>

\* download_file
DownloadFile(p) ==
    /\ sync_states' = UpdateSyncState(sync_states, p, DownloadFileState(p, files[p]))
    /\ UNCHANGED <<files, sync_tasks, resolver, conflict_files, notS>>

\* resolve_and_sync, called as sync_file calls it: with the hash of the
\* local bytes and a remote hash that differs from it.  The remote content
\* is a placeholder: the empty string.
ResolveAndSync(p, remote_hash) ==
    LET local_hash == Hash(files[p])
        local_content == files[p]
        remote_content == ""
        merge_result == Resolve(p, local_content, remote_content)
    IN
    /\ remote_hash # local_hash
    /\ CASE merge_result.kind = "Merged" ->
              /\ files' = [files EXCEPT ![p] = merge_result.content]
              /\ sync_states' = UpdateSyncState(sync_states, p,
                     UploadFileState(p, local_hash, merge_result.content))
              /\ UNCHANGED conflict_files
         [] merge_result.kind = "Conflict" ->
              /\ conflict_files' = [conflict_files EXCEPT
                     ![WithExtension(p, "conflict")] = merge_result.content]
              /\ sync_states' = UpdateSyncState(sync_states, p,
                     SyncState(local_hash, remote_hash, "Conflict", files[p]))
              /\ UNCHANGED files
         [] OTHER -> UNCHANGED <<files, sync_states, conflict_files>>
    /\ UNCHANGED <<sync_tasks, resolver, notS>>

\* handle_file_removal
HandleFileRemoval(p) ==
    /\ sync_states[p] # NoState
    /\ sync_states' = [sync_states EXCEPT ![p] = NoState]
    /\ UNCHANGED <<files, sync_tasks, resolver, conflict_files, notS>>

SNext ==
    \/ \E p \in SPaths, c \in Contents : EditFile(p, c)
    \/ \E t \in Callers, p \in SPaths : SyncFileHash(t, p)
    \/ \E t \in Callers : SyncFileUpload(t)
    \/ \E p \in SPaths : DownloadFile(p)
    \/ \E p \in SPaths, h \in Hashes : ResolveAndSync(p, h)
    \/ \E p \in SPaths : HandleFileRemoval(p)

\* C2: every path whose recorded state is Synced has a local hash equal to
\* the remote hash, and that hash is the SHA-256 of the bytes the file had
\* when the state was recorded.
C2_SyncedInvariant ==
    \A p \in SPaths :
        sync_states[p].status = "Synced" =>
            /\ sync_states[p].local_hash = sync_states[p].remote_hash
            /\ sync_states[p].local_hash = Hash(sync_states[p].bytes_at_record)

\* The sync_file calls in flight on path p.
InFlight(p) == {t \in Callers : sync_tasks[t].pc # "idle" /\ sync_tasks[t].path = p}

\* C3: at most one sync of a given path is in flight at a time.
C3_PerPathSerialization ==
    \A p \in SPaths : Cardinality(InFlight(p)) <= 1

\* C19: when resolve_and_sync records a conflict for path p, the marker is
\* in the file p.conflict, no other conflict file and no managed file has
\* changed, and the state recorded for p is Conflict.
C19_ConflictMaterialization ==
    [][\A p \in SPaths :
          (sync_states'[p].status = "Conflict" /\ sync_states'[p] # sync_states[p]) =>
              /\ conflict_files'[ConflictSuffixed(p)] = ConflictMarker(files[p], "").content
              /\ \A n \in ConflictNames \ {ConflictSuffixed(p)} :
                     conflict_files'[n] = conflict_files[n]
              /\ files' = files]_vars

\* sync_file, first part, when FileScanner::hash_file cannot read the file:
\* the error leaves sync_file through the ? and no state is recorded.
SyncFileHashError(t, p) ==
    /\ sync_tasks[t].pc = "idle"
    /\ sync_tasks' = [sync_tasks EXCEPT ![t] =
            [pc |-> "error", path |-> p, local_hash |-> None]]
    /\ UNCHANGED <<files, sync_states, resolver, conflict_files, notS>>

\* The caller of sync_file takes the error: run_full_sync logs and counts
\* it, start_incremental_sync logs what handle_file_event passes on.
SyncFileErrorLogged(t) ==
    /\ sync_tasks[t].pc = "error"
    /\ sync_tasks' = [sync_tasks EXCEPT ![t] = TaskIdle]
    /\ UNCHANGED <<files, sync_states, resolver, conflict_files, notS>>

StatusNext ==
    \/ SNext
    \/ \E t \in Callers, p \in SPaths : SyncFileHashError(t, p)
    \/ \E t \in Callers : SyncFileErrorLogged(t)

\* The sync_file call of task t has just ended with an error.
EndsWithError(t) == sync_tasks[t].pc # "error" /\ sync_tasks'[t].pc = "error"

\* C30: the status recorded for a path becomes Synced, Failed or Conflict
\* only from Syncing, it becomes Syncing only from Pending, Failed, Conflict
\* or Synced, and when a sync_file call ends with an error its path is
\* recorded as Failed.
C30_SyncStatusLifeCycle ==
    [][/\ \A p \in SPaths :
            LET before == sync_states[p].status
                after == sync_states'[p].status
            IN /\ (after \in {"Synced", "Failed", "Conflict"} /\ after # before)
                      => before = "Syncing"
               /\ (after = "Syncing" /\ after # before)
                      => before \in {"Pending", "Failed", "Conflict", "Synced"}
       /\ \A t \in Callers :
            EndsWithError(t) => sync_states'[sync_tasks'[t].path].status = "Failed"]_vars

(***************************************************************************)
(* rules.rs -- RuleEngine                                                  *)
(***************************************************************************)
MaxRules == 2

I32Min == -2147483647 - 1

RuleType == {"Include", "Exclude"}

\* The priorities validate_rule accepts lie in -100..100.
Priorities == {-100, 10}

PatternType == {"Glob", "Regex"}

\* A glob and a regular expression.
Patterns ==
    {[pattern_type |-> "Glob", pattern |-> "*.md"],
     [pattern_type |-> "Regex", pattern |-> "-temp"]}

RPaths == {"test.md", "test-temp.md", "a.txt"}

FileTypes == {"text", "json"}

\* A SyncRule.  Its id is its content, so that rules of equal content share
\* an id, as rules of one id may in the program.
SyncRules ==
    {[rule_type |-> rt, pattern |-> p.pattern, pattern_type |-> p.pattern_type,
      file_type |-> ft, priority |-> pr, enabled |-> en] :
        rt \in RuleType, p \in Patterns, ft \in {None, "text"},
        pr \in Priorities, en \in BOOLEAN}

RuleId(rule) == rule

SeqsUpTo(S, n) == UNION {[1..k -> S] : k \in 0..n}

\* match_pattern: glob::Pattern::matches_path and regex::Regex::is_match
\* for the patterns and the paths of the model.
MatchPattern(pattern_type, pattern, path) ==
    CASE pattern_type = "Glob" /\ pattern = "*.md" ->
             path \in {"test.md", "test-temp.md"}
      [] pattern_type = "Regex" /\ pattern = "-temp" -> path = "test-temp.md"
      [] OTHER -> FALSE

\* sort_by(|a, b| b.priority.cmp(&a.priority)): a stable sort, highest
\* priority first.
RECURSIVE SortByPriority(_)
SortByPriority(rs) ==
    IF Len(rs) <= 1 THEN rs
    ELSE LET sorted == SortByPriority(SubSeq(rs, 1, Len(rs) - 1))
             r == rs[Len(rs)]
             before == {i \in DOMAIN sorted : sorted[i].priority >= r.priority}
             k == IF before = {} THEN 0 ELSE Max(before)
         IN SubSeq(sorted, 1, k) \o <<r>> \o SubSeq(sorted, k + 1, Len(sorted))

\* RuleEngine::from_rules
FromRules(rs) == SortByPriority(rs)

\* Every rule taken to apply, whatever its file type.
FileTypeIgnored(rule, file_type) == TRUE

\* The file-type check of should_sync: a rule with a file type applies only
\* to a call that gives that same type.
FileTypeApplies(rule, file_type) ==
    rule.file_type = None \/ (file_type # None /\ rule.file_type = file_type)

\* The loop of should_sync from rule i on, with the verdict and the
\* highest priority so far.
RECURSIVE ShouldSyncFrom(_, _, _, _, _, _)
ShouldSyncFrom(rs, i, path, file_type, should_sync, highest_priority) ==
    IF i > Len(rs) THEN should_sync
    ELSE LET rule == rs[i] IN
         IF /\ rule.enabled
            /\ FileTypeApplies(rule, file_type)
            /\ MatchPattern(rule.pattern_type, rule.pattern, path)
            /\ rule.priority > highest_priority
         THEN ShouldSyncFrom(rs, i + 1, path, file_type,
                             rule.rule_type = "Include", rule.priority)
         ELSE ShouldSyncFrom(rs, i + 1, path, file_type,
                             should_sync, highest_priority)

\* RuleEngine::should_sync
ShouldSync(rs, path, file_type) ==
    ShouldSyncFrom(rs, 1, path, file_type, TRUE, I32Min)

NoQuery == [path |-> None, file_type |-> None, result |-> TRUE]

\* The engine after RuleEngine::new or RuleEngine::from_rules.
RInit ==
    /\ rules \in {FromRules(rs) : rs \in SeqsUpTo(SyncRules, MaxRules)}
    /\ rule_query = NoQuery

RIdle ==
    /\ rules = <<>>
    /\ rule_query = NoQuery

\* RuleEngine::add_rule
AddRule(rule) ==
    /\ Len(rules) < MaxRules
    /\ rules' = SortByPriority(Append(rules, rule))
    /\ rule_query' = NoQuery
    /\ UNCHANGED notR

\* RuleEngine::remove_rule: the first rule of that id is removed, if any.
RemoveRule(rule_id) ==
    /\ LET found == {i \in DOMAIN rules : RuleId(rules[i]) = rule_id} IN
       IF found = {} THEN rules' = rules
       ELSE LET pos == CHOOSE i \in found : \A j \in found : i <= j
            IN rules' = SubSeq(rules, 1, pos - 1) \o SubSeq(rules, pos + 1, Len(rules))
    /\ rule_query' = NoQuery
    /\ UNCHANGED notR

\* A call of should_sync.
ShouldSyncCall(path, file_type) ==
    /\ rule_query' = [path |-> path, file_type |-> file_type,
                      result |-> ShouldSync(rules, path, file_type)]
    /\ UNCHANGED <<rules, notR>>

\* The ids remove_rule is called with: those of the rules held, and one that
\* no rule held has.
RemovableIds ==
    {RuleId(rules[i]) : i \in DOMAIN rules}
        \cup {RuleId(CHOOSE r \in SyncRules : \A i \in DOMAIN rules : rules[i] # r)}

RNext ==
    \/ \E rule \in SyncRules : AddRule(rule)
    \/ \E rule_id \in RemovableIds : RemoveRule(rule_id)
    \/ \E path \in RPaths, ft \in FileTypes \cup {None} : ShouldSyncCall(path, ft)

\* The enabled rules that apply to a call: the file-type qualifier is absent
\* or equal to the supplied type, and the pattern matches the path.
Applicable(rs, path, file_type) ==
    {i \in DOMAIN rs :
        /\ rs[i].enabled
        /\ (rs[i].file_type = None \/ rs[i].file_type = file_type)
        /\ MatchPattern(rs[i].pattern_type, rs[i].pattern, path)}

Highest(rs, A) == {i \in A : \A j \in A : rs[j].priority <= rs[i].priority}

\* C4: should_sync returns the inclusion flag of a highest-priority enabled
\* rule that applies to the path and the file type, and include when no rule
\* applies.
C4_RuleVerdict ==
    rule_query.path # None =>
        LET A == Applicable(rules, rule_query.path, rule_query.file_type) IN
        IF A = {} THEN rule_query.result = TRUE
        ELSE \E i \in Highest(rules, A) :
                 rule_query.result = (rules[i].rule_type = "Include")

\* A call to which two enabled rules of different priorities and different
\* flags apply has returned.
C4_Witness ==
    /\ rule_query.path # None
    /\ \E i, j \in Applicable(rules, rule_query.path, rule_query.file_type) :
           /\ rules[i].priority > rules[j].priority
           /\ rules[i].rule_type # rules[j].rule_type
           /\ rule_query.result = (rules[i].rule_type = "Include")

(***************************************************************************)
(* retry.rs -- RetryConfig::calculate_delay                                *)
(***************************************************************************)
MaxAttempt == 2

MaxInitialDelay == 2

MaxMaxDelay == 3

\* Fractions are pairs <<numerator, denominator>>; those below are dyadic,
\* so that the f64 arithmetic of calculate_delay on them is exact.
Multipliers == {<<1, 2>>, <<1, 1>>, <<3, 2>>, <<2, 1>>}

JitterFactors == {<<0, 1>>, <<1, 2>>, <<1, 1>>}

\* (rand::random::<f64>() - 0.5) * 2.0 lies in [-1, 1).
Draws == {<<-1, 1>>, <<-1, 2>>, <<0, 1>>, <<1, 2>>, <<3, 4>>}

RetryConfig ==
    [max_retries : {0}, initial_delay_ms : 0..MaxInitialDelay,
     max_delay_ms : 0..MaxMaxDelay, multiplier : Multipliers,
     jitter_factor : JitterFactors]

Abs(x) == IF x < 0 THEN -x ELSE x

Min2(a, b) == IF a < b THEN a ELSE b

Max2(a, b) == IF a > b THEN a ELSE b

RECURSIVE Pow(_, _)
Pow(b, e) == IF e = 0 THEN 1 ELSE b * Pow(b, e - 1)

\* The same computation with the jitter taken with its sign.
CalculateDelaySigned(config, k, u) ==
    LET delay_ms == Min2((config.initial_delay_ms * Pow(config.multiplier[1], k))
                             \div Pow(config.multiplier[2], k),
                         config.max_delay_ms)
        jitter == (delay_ms * config.jitter_factor[1] * Abs(u[1]))
                      \div (config.jitter_factor[2] * u[2])
    IN Max2(delay_ms + (IF u[1] < 0 THEN -jitter ELSE jitter), 0)

\* RetryConfig::calculate_delay(attempt), in milliseconds, where u is the
\* value of (rand::random::<f64>() - 0.5) * 2.0.  The casts "as u64" and
\* "as i64" truncate.
CalculateDelay(config, k, u) ==
    LET delay_ms == Min2((config.initial_delay_ms * Pow(config.multiplier[1], k))
                             \div Pow(config.multiplier[2], k),
                         config.max_delay_ms)
        jitter == (delay_ms * config.jitter_factor[1] * Abs(u[1]))
                      \div (config.jitter_factor[2] * u[2])
    IN Max2(delay_ms + jitter, 0)

NoCall == [attempt |-> -1, delay |-> 0]

DInit ==
    /\ delay_config \in RetryConfig
    /\ delay_prev = NoCall
    /\ delay_last = NoCall

DIdle ==
    /\ delay_config = [max_retries |-> 0, initial_delay_ms |-> 0, max_delay_ms |-> 0,
                       multiplier |-> <<1, 1>>, jitter_factor |-> <<0, 1>>]
    /\ delay_prev = NoCall
    /\ delay_last = NoCall

\* A call config.calculate_delay(k).
CalculateDelayCall(k, u) ==
    /\ delay_prev' = delay_last
    /\ delay_last' = [attempt |-> k, delay |-> CalculateDelay(delay_config, k, u)]
    /\ UNCHANGED <<delay_config, notD>>

DNext ==
    \E k \in 0..MaxAttempt, u \in Draws : CalculateDelayCall(k, u)

\* min(initial_delay_ms * multiplier^k, max_delay_ms), truncated: the backoff
\* before jitter.
ClampedBackoff(config, k) ==
    Min2((config.initial_delay_ms * Pow(config.multiplier[1], k))
             \div Pow(config.multiplier[2], k),
         config.max_delay_ms)

MultiplierAtLeastOne(config) == config.multiplier[1] >= config.multiplier[2]

Consecutive == delay_prev.attempt >= 0 /\ delay_last.attempt = delay_prev.attempt + 1

MaxRetries == 2

\* The variants of ClientError; a Grpc error with its tonic::Code.
ClientError ==
    {"Config", "Auth", "Token", "Network", "Grpc(Unavailable)",
     "Grpc(DeadlineExceeded)", "Grpc(NotFound)", "File", "Sync", "Conflict",
     "Parse", "Validation", "Timeout", "RetryExhausted", "Internal"}

RetryStrategy == {"ExponentialBackoff", "FixedDelay", "Immediate", "Custom"}

\* Every error taken for retryable.
IsRetryableAlways(err) == TRUE

\* ClientError::is_retryable
IsRetryable(err) ==
    err \in {"Network", "Grpc(Unavailable)", "Grpc(DeadlineExceeded)", "Timeout"}

\* The last attempt taken to be the one before max_retries.
IsLastAttemptEarly(config, a) == a + 1 >= config.max_retries

\* attempt == self.config.max_retries
IsLastAttempt(config, a) == a = config.max_retries

\* The delay execute sleeps after a failed attempt, by strategy.
StrategyDelay(config, strat, a, u) ==
    CASE strat = "ExponentialBackoff" -> CalculateDelay(config, a, u)
      [] strat = "FixedDelay" -> config.initial_delay_ms
      [] strat = "Immediate" -> 0
      [] strat = "Custom" -> CalculateDelay(config, a, u)

\* execute has been called and is about to invoke the operation for the
\* first time.
EInit ==
    /\ retry_config \in [max_retries : 0..MaxRetries, initial_delay_ms : {1},
                         max_delay_ms : {MaxMaxDelay}, multiplier : {<<2, 1>>},
                         jitter_factor : {<<1, 2>>}]
    /\ strategy \in RetryStrategy
    /\ re_pc = "call"
    /\ attempt = 0
    /\ outcomes = <<>>
    /\ slept = <<>>
    /\ result = None

EIdle ==
    /\ retry_config = [max_retries |-> 0, initial_delay_ms |-> 0, max_delay_ms |-> 0,
                       multiplier |-> <<1, 1>>, jitter_factor |-> <<0, 1>>]
    /\ strategy = "ExponentialBackoff"
    /\ re_pc = "done"
    /\ attempt = 0
    /\ outcomes = <<>>
    /\ slept = <<>>
    /\ result = None

\* operation().await returned Ok.
OperationOk ==
    /\ re_pc = "call"
    /\ outcomes' = Append(outcomes, "Ok")
    /\ result' = "Ok"
    /\ re_pc' = "done"
    /\ UNCHANGED <<retry_config, strategy, attempt, slept, notE>>

\* operation().await returned Err(err): execute returns the error when it is
\* not retryable or the attempt is the last, and otherwise goes to sleep.
OperationErr(err, u) ==
    /\ re_pc = "call"
    /\ outcomes' = Append(outcomes, err)
    /\ IF ~IsRetryable(err) \/ IsLastAttempt(retry_config, attempt)
       THEN /\ result' = err
            /\ re_pc' = "done"
            /\ UNCHANGED slept
       ELSE /\ slept' = Append(slept, StrategyDelay(retry_config, strategy, attempt, u))
            /\ re_pc' = "sleep"
            /\ UNCHANGED result
    /\ UNCHANGED <<retry_config, strategy, attempt, notE>>

\* sleep(delay).await is over: the next iteration of the loop.
SleepElapsed ==
    /\ re_pc = "sleep"
    /\ attempt' = attempt + 1
    /\ re_pc' = "call"
    /\ UNCHANGED <<retry_config, strategy, outcomes, slept, result, notE>>

ENext ==
    \/ OperationOk
    \/ \E err \in ClientError, u \in Draws : OperationErr(err, u)
    \/ SleepElapsed

\* The errors the specification calls retryable.
RetryableErrors == {"Network", "Timeout", "Grpc(Unavailable)", "Grpc(DeadlineExceeded)"}

Failures == {i \in DOMAIN outcomes : outcomes[i] # "Ok"}

AllRetryable(S) == \A i \in S : outcomes[i] \in RetryableErrors

C5_Safety ==
    /\ Len(outcomes) <= retry_config.max_retries + 1
    /\ (outcomes # <<>> /\ outcomes[Len(outcomes)] \notin RetryableErrors \cup {"Ok"}) =>
           /\ re_pc = "done"
           /\ result = outcomes[Len(outcomes)]
           /\ Len(slept) = Len(outcomes) - 1

\* C5: execute invokes the operation at most max_retries + 1 times and
\* always terminates; an error that is not retryable is returned at once,
\* without a sleep after it.
C5_RetryBound == [](C5_Safety) /\ <>(re_pc = "done")

\* execute returned a non-retryable error after at least one retry.
C5_Witness ==
    /\ re_pc = "done"
    /\ Len(outcomes) >= 2
    /\ result \in ClientError \ RetryableErrors
    /\ Len(slept) = Len(outcomes) - 1

\* C6: while the operation has failed k <= max_retries times, each time
\* with a retryable error, execute goes on to invoke it again; when the
\* operation then succeeds, execute returns the success, after exactly
\* k + 1 invocations.
C6_RetrySuccess ==
    /\ (AllRetryable(DOMAIN outcomes) /\ Len(outcomes) <= retry_config.max_retries) =>
           re_pc # "done"
    /\ (outcomes # <<>> /\ outcomes[Len(outcomes)] = "Ok") =>
           /\ re_pc = "done"
           /\ result = "Ok"
           /\ Len(outcomes) = Cardinality(Failures) + 1
           /\ Len(slept) = Cardinality(Failures)

\* execute returned success after max_retries retryable failures.
C6_Witness ==
    /\ re_pc = "done"
    /\ result = "Ok"
    /\ retry_config.max_retries >= 2
    /\ Cardinality(Failures) = retry_config.max_retries
    /\ AllRetryable(Failures)

\* C7: when every one of the max_retries + 1 invocations fails with a
\* retryable error, the error execute returns is of the retry-exhausted
\* kind.
C7_RetryExhaustion ==
    (/\ re_pc = "done"
     /\ Len(outcomes) = retry_config.max_retries + 1
     /\ AllRetryable(DOMAIN outcomes)) => result = "RetryExhausted"

(***************************************************************************)
(* retry.rs -- OfflineQueue                                                *)
(***************************************************************************)
MaxQueueSize == 2

Items == {"a", "b"}

QueueCallers == {"c1", "c2"}

\* A push that does not look at max_size.
PushUnchecked(queue, max_size, item) ==
    [ok |-> TRUE, queue |-> Append(queue, item)]

\* The body of OfflineQueue::push, under the lock: the result and the queue
\* afterwards.
Push(queue, max_size, item) ==
    IF Len(queue) >= max_size
    THEN [ok |-> FALSE, queue |-> queue]
    ELSE [ok |-> TRUE, queue |-> Append(queue, item)]

\* A drain that leaves the items in the queue.
DrainKeeping(queue) == [items |-> queue, queue |-> queue]

\* The body of OfflineQueue::drain, under the lock: std::mem::take.
Drain(queue) == [items |-> queue, queue |-> <<>>]

NoQueueCall ==
    [op |-> None, item |-> None, pc |-> "idle", ok |-> TRUE,
     before |-> <<>>, after |-> <<>>, returned |-> <<>>]

\* OfflineQueue::new(max_size)
QInit ==
    /\ oq_max_size \in 0..MaxQueueSize
    /\ oq_queue = <<>>
    /\ oq_calls = [c \in QueueCallers |-> NoQueueCall]

QIdle ==
    /\ oq_max_size = 0
    /\ oq_queue = <<>>
    /\ oq_calls = [c \in QueueCallers |-> NoQueueCall]

\* A task calls push, drain or clear and waits for the mutex.
QueueCall(c, op, item) ==
    /\ oq_calls[c].pc = "idle"
    /\ oq_calls' = [oq_calls EXCEPT ![c] =
                        [NoQueueCall EXCEPT !.op = op, !.item = item, !.pc = "lock"]]
    /\ UNCHANGED <<oq_max_size, oq_queue, notQ>>

\* The task gets the mutex, runs the body of its call and drops the guard.
QueueRun(c) ==
    /\ oq_calls[c].pc = "lock"
    /\ LET call == oq_calls[c]
           pushed == Push(oq_queue, oq_max_size, call.item)
           drained == Drain(oq_queue)
       IN CASE call.op = "push" ->
                 /\ oq_queue' = pushed.queue
                 /\ oq_calls' = [oq_calls EXCEPT ![c].pc = "idle", ![c].ok = pushed.ok,
                                                 ![c].before = oq_queue,
                                                 ![c].after = pushed.queue]
            [] call.op = "drain" ->
                 /\ oq_queue' = drained.queue
                 /\ oq_calls' = [oq_calls EXCEPT ![c].pc = "idle", ![c].before = oq_queue,
                                                 ![c].after = drained.queue,
                                                 ![c].returned = drained.items]
            [] call.op = "clear" ->
                 /\ oq_queue' = <<>>
                 /\ oq_calls' = [oq_calls EXCEPT ![c].pc = "idle", ![c].before = oq_queue]
    /\ UNCHANGED <<oq_max_size, notQ>>

QNext ==
    \/ \E c \in QueueCallers, item \in Items : QueueCall(c, "push", item)
    \/ \E c \in QueueCallers : QueueCall(c, "drain", None)
    \/ \E c \in QueueCallers : QueueCall(c, "clear", None)
    \/ \E c \in QueueCallers : QueueRun(c)

Returned(c, op) == oq_calls[c].pc = "idle" /\ oq_calls[c].op = op

\* C9: the length of the queue never exceeds max_size; a push issued when
\* the length equals max_size returns an error and leaves the contents as
\* they were; drain returns at most max_size items.
C9_OfflineQueueBound ==
    /\ Len(oq_queue) <= oq_max_size
    /\ \A c \in QueueCallers :
           /\ (Returned(c, "push") /\ Len(oq_calls[c].before) = oq_max_size) =>
                  /\ ~oq_calls[c].ok
                  /\ oq_calls[c].after = oq_calls[c].before
           /\ Returned(c, "drain") => Len(oq_calls[c].returned) <= oq_max_size

\* A push found the queue of a non-zero max_size full and returned an error,
\* while the other caller has a call waiting for the mutex.
C9_Witness ==
    /\ oq_max_size >= 1
    /\ \E c, d \in QueueCallers :
           /\ Returned(c, "push")
           /\ Len(oq_calls[c].before) = oq_max_size
           /\ ~oq_calls[c].ok
           /\ oq_queue = oq_calls[c].before
           /\ oq_calls[d].pc = "lock"

(***************************************************************************)
(* network.rs -- NetworkRecoveryManager                                    *)
(***************************************************************************)
MaxOps == 3

MaxReconnect == 1

\* OfflineQueue::new(1000)
OfflineQueueCapacity == 1000

NetworkStatus == {"Online", "Offline", "Reconnecting", "Unknown"}

\* The tasks of spawn_health_check_task and spawn_network_monitor.
NetTasks == {"health_check", "monitor"}

\* The two tasks and a caller of execute_with_recovery.
NetActors == NetTasks \cup {"caller"}

NetTaskIdle == [pc |-> "idle", attempts |-> 0, operations |-> <<>>, idx |-> 0]

\* reconnect returns: a task logs the result and goes back to its interval;
\* ensure_online looks at the result.
ReconnectReturn(t, r) ==
    IF t \in NetTasks THEN NetTaskIdle ELSE [NetTaskIdle EXCEPT !.pc = r]

\* NetworkRecoveryManager::new, and both tasks spawned and waiting for the
\* tick of their interval.
NInit ==
    /\ status = "Unknown"
    /\ max_reconnect_attempts \in 0..MaxReconnect
    /\ offline_queue = <<>>
    /\ net_tasks = [t \in NetActors |-> NetTaskIdle]
    /\ next_op = 1
    /\ enqueued_offline = {}
    /\ processed = <<>>

NIdle ==
    /\ status = "Unknown"
    /\ max_reconnect_attempts = 0
    /\ offline_queue = <<>>
    /\ net_tasks = [t \in NetActors |-> NetTaskIdle]
    /\ next_op = 1
    /\ enqueued_offline = {}
    /\ processed = <<>>

\* NetworkRecoveryManager::set_status
SetStatus(new) == status' = new

\* NetworkRecoveryManager::process_operation: every arm returns Ok.
ProcessOperation(op) == "Ok"

\* A variant that gives up one failed check late (attempts > max_attempts).
AttemptsExhaustedLate(attempts, max) == max # 0 /\ attempts > max

\* attempts >= max_attempts, where max_attempts is usize::MAX when
\* max_reconnect_attempts is 0.
AttemptsExhausted(attempts, max) == max # 0 /\ attempts >= max

\* queue_offline_operation: a push onto the offline queue, whatever the
\* status.
QueueOfflineOperation ==
    /\ next_op <= MaxOps
    /\ LET pushed == Push(offline_queue, OfflineQueueCapacity, next_op) IN
       /\ offline_queue' = pushed.queue
       /\ enqueued_offline' = IF pushed.ok /\ status = "Offline"
                              THEN enqueued_offline \cup {next_op}
                              ELSE enqueued_offline
    /\ next_op' = next_op + 1
    /\ UNCHANGED <<status, max_reconnect_attempts, net_tasks, processed, notN>>

\* The health-check task: the interval ticks and check_connection sends its
\* request.
HealthCheckTick ==
    /\ net_tasks["health_check"].pc = "idle"
    /\ net_tasks' = [net_tasks EXCEPT !["health_check"].pc = "check"]
    /\ UNCHANGED <<status, max_reconnect_attempts, offline_queue, next_op,
                   enqueued_offline, processed, notN>>

\* check_connection of the health-check task returns: it has set the status,
\* and on a failure the task goes on to reconnect.
HealthCheckDone(ok) ==
    /\ net_tasks["health_check"].pc = "check"
    /\ SetStatus(IF ok THEN "Online" ELSE "Offline")
    /\ net_tasks' = [net_tasks EXCEPT !["health_check"].pc =
                         IF ok THEN "idle" ELSE "reconnect"]
    /\ UNCHANGED <<max_reconnect_attempts, offline_queue, next_op, enqueued_offline,
                   processed, notN>>

\* The monitor task: the interval ticks, the status is read and found
\* Offline.
MonitorTick ==
    /\ net_tasks["monitor"].pc = "idle"
    /\ status = "Offline"
    /\ net_tasks' = [net_tasks EXCEPT !["monitor"].pc = "reconnect"]
    /\ UNCHANGED <<status, max_reconnect_attempts, offline_queue, next_op,
                   enqueued_offline, processed, notN>>

\* reconnect: set_status(Reconnecting) and attempts = 0.
ReconnectStart(t) ==
    /\ net_tasks[t].pc = "reconnect"
    /\ SetStatus("Reconnecting")
    /\ net_tasks' = [net_tasks EXCEPT ![t].pc = "rc_check", ![t].attempts = 0]
    /\ UNCHANGED <<max_reconnect_attempts, offline_queue, next_op, enqueued_offline,
                   processed, notN>>

\* reconnect: attempts += 1 and check_connection, which sets the status.
ReconnectCheck(t, ok) ==
    /\ net_tasks[t].pc = "rc_check"
    /\ net_tasks[t].attempts <= MaxReconnect
    /\ SetStatus(IF ok THEN "Online" ELSE "Offline")
    /\ net_tasks' = [net_tasks EXCEPT ![t].attempts = @ + 1,
                                      ![t].pc = IF ok THEN "drain" ELSE "rc_failed"]
    /\ UNCHANGED <<max_reconnect_attempts, offline_queue, next_op, enqueued_offline,
                   processed, notN>>

\* reconnect after a failed check: give up with set_status(Offline) and an
\* error, which the task logs, or sleep.
ReconnectFailed(t) ==
    /\ net_tasks[t].pc = "rc_failed"
    /\ IF AttemptsExhausted(net_tasks[t].attempts, max_reconnect_attempts)
       THEN /\ SetStatus("Offline")
            /\ net_tasks' = [net_tasks EXCEPT ![t] = ReconnectReturn(t, "rc_err")]
       ELSE /\ net_tasks' = [net_tasks EXCEPT ![t].pc = "rc_sleep"]
            /\ UNCHANGED status
    /\ UNCHANGED <<max_reconnect_attempts, offline_queue, next_op, enqueued_offline,
                   processed, notN>>

\* sleep(reconnect_interval_secs) is over.
ReconnectSleep(t) ==
    /\ net_tasks[t].pc = "rc_sleep"
    /\ net_tasks' = [net_tasks EXCEPT ![t].pc = "rc_check"]
    /\ UNCHANGED <<status, max_reconnect_attempts, offline_queue, next_op,
                   enqueued_offline, processed, notN>>

\* process_offline_queue: the drain; with nothing drained it returns.
ProcessOfflineQueueDrain(t) ==
    /\ net_tasks[t].pc = "drain"
    /\ LET drained == Drain(offline_queue) IN
       /\ offline_queue' = drained.queue
       /\ net_tasks' = [net_tasks EXCEPT ![t] =
                            IF drained.items = <<>> THEN ReconnectReturn(t, "rc_ok")
                            ELSE [pc |-> "process", attempts |-> 0,
                                  operations |-> drained.items, idx |-> 1]]
    /\ UNCHANGED <<status, max_reconnect_attempts, next_op, enqueued_offline,
                   processed, notN>>

\* process_offline_queue: one iteration of the loop over the drained
\* operations; a failed operation is pushed back, and a failed push ends the
\* loop with the error.
ProcessOfflineQueueStep(t) ==
    /\ net_tasks[t].pc = "process"
    /\ LET operation == net_tasks[t].operations[net_tasks[t].idx]
           failed == ProcessOperation(operation) # "Ok"
           pushed == Push(offline_queue, OfflineQueueCapacity, operation)
           last == net_tasks[t].idx = Len(net_tasks[t].operations)
       IN /\ processed' = Append(processed, [op |-> operation, task |-> t])
          /\ offline_queue' = IF failed THEN pushed.queue ELSE offline_queue
          /\ net_tasks' = [net_tasks EXCEPT ![t] =
                               IF failed /\ ~pushed.ok THEN ReconnectReturn(t, "rc_err")
                               ELSE IF last THEN ReconnectReturn(t, "rc_ok")
                               ELSE [@ EXCEPT !.idx = @ + 1]]
    /\ UNCHANGED <<status, max_reconnect_attempts, next_op, enqueued_offline, notN>>

NNext ==
    \/ QueueOfflineOperation
    \/ HealthCheckTick
    \/ \E ok \in BOOLEAN : HealthCheckDone(ok)
    \/ MonitorTick
    \/ \E t \in NetTasks : ReconnectStart(t)
    \/ \E t \in NetTasks, ok \in BOOLEAN : ReconnectCheck(t, ok)
    \/ \E t \in NetTasks : ReconnectFailed(t)
    \/ \E t \in NetTasks : ReconnectSleep(t)
    \/ \E t \in NetTasks : ProcessOfflineQueueDrain(t)
    \/ \E t \in NetTasks : ProcessOfflineQueueStep(t)

SeqToSet(q) == {q[i] : i \in DOMAIN q}

ProcessedOps == {processed[i].op : i \in DOMAIN processed}

\* The operations a task has drained and not yet given to process_operation.
Pending(t) ==
    IF net_tasks[t].pc = "process"
    THEN {net_tasks[t].operations[i] : i \in net_tasks[t].idx..Len(net_tasks[t].operations)}
    ELSE {}

Enqueued == 1..(next_op - 1)

FlushCapacity == 2

\* Result<(), ClientError> of process_operation
ProcessResults == {"Ok", "Err"}

\* queue_offline_operation against the scaled capacity.
FlushEnqueue ==
    /\ next_op <= FlushCapacity + 2
    /\ LET pushed == Push(offline_queue, FlushCapacity, next_op) IN
       /\ offline_queue' = pushed.queue
       /\ enqueued_offline' = IF pushed.ok /\ status = "Offline"
                              THEN enqueued_offline \cup {next_op}
                              ELSE enqueued_offline
    /\ next_op' = next_op + 1
    /\ UNCHANGED <<status, max_reconnect_attempts, net_tasks, processed, notN>>

\* process_offline_queue, one iteration with the outcome of
\* process_operation given: on Err the operation is pushed back, and
\* `push(operation).await?` returns from process_offline_queue when the
\* push fails, with the rest of `operations` dropped.
FlushStep(t, outcome) ==
    /\ net_tasks[t].pc = "process"
    /\ LET operation == net_tasks[t].operations[net_tasks[t].idx]
           failed == outcome # "Ok"
           pushed == Push(offline_queue, FlushCapacity, operation)
           last == net_tasks[t].idx = Len(net_tasks[t].operations)
       IN /\ processed' = IF failed THEN processed
                          ELSE Append(processed, [op |-> operation, task |-> t])
          /\ offline_queue' = IF failed THEN pushed.queue ELSE offline_queue
          /\ net_tasks' = [net_tasks EXCEPT ![t] =
                               IF failed /\ ~pushed.ok THEN ReconnectReturn(t, "rc_err")
                               ELSE IF last THEN ReconnectReturn(t, "rc_ok")
                               ELSE [@ EXCEPT !.idx = @ + 1]]
    /\ UNCHANGED <<status, max_reconnect_attempts, next_op, enqueued_offline, notN>>

\* The task whose reconnect flushes here; queue_offline_operation is the
\* concurrent actor.
FlushTasks == {"health_check"}

FlushNext ==
    \/ FlushEnqueue
    \/ HealthCheckTick
    \/ \E ok \in BOOLEAN : HealthCheckDone(ok)
    \/ \E t \in FlushTasks : ReconnectStart(t)
    \/ \E t \in FlushTasks, ok \in BOOLEAN : ReconnectCheck(t, ok)
    \/ \E t \in FlushTasks : ReconnectFailed(t)
    \/ \E t \in FlushTasks : ReconnectSleep(t)
    \/ \E t \in FlushTasks : ProcessOfflineQueueDrain(t)
    \/ \E t \in FlushTasks, outcome \in ProcessResults : FlushStep(t, outcome)

RecoveryActors == {"caller", "health_check"}

\* What RetryExecutor::execute returns to execute_with_recovery: success, a
\* transport error or another error.
RecoveryResults == {"Ok", "Network", "Auth"}

\* The operation of the caller, as an operation number no enqueued
\* operation has.
CallerOperation == 0

NoRecovery ==
    [observed |-> None, waited |-> FALSE, invoked |-> FALSE, result |-> None,
     status_at_return |-> None]

XInit == recovery = NoRecovery

XIdle == recovery = NoRecovery

\* ensure_online with Unknown taken for Online.
EnsureOnlineStepUnknownOnline(st) ==
    CASE st \in {"Online", "Unknown"} -> "execute"
      [] st = "Offline" -> "reconnect"
      [] st = "Reconnecting" -> "wait"

\* The match of ensure_online on the status it has read: return, reconnect
\* or sleep.
EnsureOnlineStep(st) ==
    CASE st = "Online" -> "execute"
      [] st \in {"Offline", "Unknown"} -> "reconnect"
      [] st = "Reconnecting" -> "wait"

\* execute_with_recovery is called.
ExecuteWithRecovery ==
    /\ net_tasks["caller"].pc = "idle"
    /\ net_tasks' = [net_tasks EXCEPT !["caller"].pc = "ensure_online"]
    /\ recovery' = NoRecovery
    /\ UNCHANGED <<status, max_reconnect_attempts, offline_queue, next_op,
                   enqueued_offline, processed, notX>>

\* ensure_online: get_status and the match on it.
EnsureOnlineRead ==
    /\ net_tasks["caller"].pc = "ensure_online"
    /\ net_tasks' = [net_tasks EXCEPT !["caller"].pc = EnsureOnlineStep(status)]
    /\ recovery' = [recovery EXCEPT !.observed = status,
                                    !.waited = @ \/ status # "Online"]
    /\ UNCHANGED <<status, max_reconnect_attempts, offline_queue, next_op,
                   enqueued_offline, processed, notX>>

\* ensure_online: sleep(1 s) is over, the loop goes on.
EnsureOnlineWake ==
    /\ net_tasks["caller"].pc = "wait"
    /\ net_tasks' = [net_tasks EXCEPT !["caller"].pc = "ensure_online"]
    /\ UNCHANGED <<status, max_reconnect_attempts, offline_queue, next_op,
                   enqueued_offline, processed, recovery, notX>>

\* ensure_online: self.reconnect().await? has returned; an error ends
\* execute_with_recovery, a success goes round the loop.
EnsureOnlineReconnected ==
    /\ net_tasks["caller"].pc \in {"rc_ok", "rc_err"}
    /\ IF net_tasks["caller"].pc = "rc_ok"
       THEN /\ net_tasks' = [net_tasks EXCEPT !["caller"].pc = "ensure_online"]
            /\ UNCHANGED recovery
       ELSE /\ net_tasks' = [net_tasks EXCEPT !["caller"].pc = "idle"]
            /\ recovery' = [recovery EXCEPT !.result = "Network",
                                            !.status_at_return = status]
    /\ UNCHANGED <<status, max_reconnect_attempts, offline_queue, next_op,
                   enqueued_offline, processed, notX>>

\* execute_with_recovery: the operation goes to RetryExecutor::execute, and
\* what that returns is returned.
ExecuteOperation(res) ==
    /\ net_tasks["caller"].pc = "execute"
    /\ net_tasks' = [net_tasks EXCEPT !["caller"].pc = "idle"]
    /\ recovery' = [recovery EXCEPT !.invoked = TRUE, !.result = res,
                                    !.status_at_return = status]
    /\ UNCHANGED <<status, max_reconnect_attempts, offline_queue, next_op,
                   enqueued_offline, processed, notX>>

XNext ==
    \/ ExecuteWithRecovery
    \/ EnsureOnlineRead
    \/ EnsureOnlineWake
    \/ EnsureOnlineReconnected
    \/ \E res \in RecoveryResults : ExecuteOperation(res)
    \/ HealthCheckTick
    \/ \E ok \in BOOLEAN : HealthCheckDone(ok)
    \/ \E t \in RecoveryActors : ReconnectStart(t)
    \/ \E t \in RecoveryActors, ok \in BOOLEAN : ReconnectCheck(t, ok)
    \/ \E t \in RecoveryActors : ReconnectFailed(t)
    \/ \E t \in RecoveryActors : ReconnectSleep(t)
    \/ \E t \in RecoveryActors : ProcessOfflineQueueDrain(t)

InReconnect(pc) == pc \in {"rc_check", "rc_failed", "rc_sleep"}

\* The actors inside reconnect, and those inside process_offline_queue.
Reconnecting ==
    {t \in NetActors : InReconnect(net_tasks[t].pc) \/ net_tasks[t].pc \in {"drain", "process"}}

Flushing == {t \in NetActors : net_tasks[t].pc \in {"drain", "process"}}

\* C38: while an actor is in the check loop of reconnect, its sleeps
\* included, the status is Reconnecting; at most one actor is inside
\* reconnect, and at most one inside process_offline_queue.
C38_SingleReconnectLoop ==
    /\ \A t \in NetActors : InReconnect(net_tasks[t].pc) => status = "Reconnecting"
    /\ Cardinality(Reconnecting) <= 1
    /\ Cardinality(Flushing) <= 1

\* C29: with max_reconnect_attempts = n > 0 a reconnect makes at most n
\* connection checks, and when the n-th fails it sets the status to Offline
\* and returns the network error; it gives up in no other case, so with
\* max_reconnect_attempts = 0 it returns only after a check has succeeded.
C29_ReconnectBound ==
    [][\A t \in RecoveryActors :
        LET before == net_tasks[t]
            after == net_tasks'[t]
            n == max_reconnect_attempts
            gave_up == before.pc = "rc_failed" /\ ~InReconnect(after.pc)
        IN /\ (n > 0 /\ InReconnect(after.pc)) => after.attempts <= n
           /\ gave_up => /\ n > 0
                         /\ before.attempts = n
                         /\ status' = "Offline"
                         /\ t = "caller" => after.pc = "rc_err"
           /\ (before.pc = "rc_failed" /\ after # before /\ n > 0
                  /\ before.attempts >= n) => gave_up
           /\ (after.pc \in {"rc_ok", "rc_err"} /\ before.pc # after.pc)
                  => gave_up \/ before.pc \in {"drain", "process"}]_vars

\* The caller's reconnect has given up after max_reconnect_attempts > 0
\* failed checks and left the status Offline.
C29_Witness ==
    /\ max_reconnect_attempts > 0
    /\ net_tasks["caller"].pc = "rc_err"
    /\ status = "Offline"

\* The operations that are in the offline queue or were taken from it.
Queued ==
    SeqToSet(offline_queue) \cup ProcessedOps
        \cup UNION {Pending(t) : t \in NetActors}

\* C12: an operation given to execute_with_recovery that ends with a
\* transport error while the status is Offline is in the offline queue.
C12_OfflineRedirect ==
    (recovery.result = "Network" /\ recovery.status_at_return = "Offline") =>
        CallerOperation \in Queued

(***************************************************************************)
(* connection_pool.rs: ConnectionPool::acquire, release, shutdown and the  *)
(* Drop of PooledConnection.  A connection id is "conn_<use_count>"; the   *)
(* model keeps the number.  is_expired depends on the clock and is an      *)
(* input of the steps that call it.                                        *)
(***************************************************************************)
MaxConnections == 2

MaxAcquires == 3

notP == <<wVars, sVars, rVars, eVars, dVars, qVars, nVars, xVars, tVars, jVars, cVars, fVars, kVars, gVars, uVars, aVars, mVars>>

PoolCallers == {"a", "b"}

Handles == 1..MaxAcquires

ConnIds == 1..MaxAcquires

NoConn == [channel |-> 0, use_count |-> 0]

PoolCallIdle == [pc |-> "idle", conn |-> NoConn, result |-> None]

NoHandle == [pc |-> "none", conn_id |-> 0, conn |-> NoConn]

PInit ==
    /\ pool_max_connections \in 1..MaxConnections
    /\ semaphore = pool_max_connections
    /\ idle_connections = <<>>
    /\ active_connections = [k \in ConnIds |-> NoConn]
    /\ idle_lock = None
    /\ active_lock = None
    /\ is_shutdown = FALSE
    /\ shutdown_pc = "idle"
    /\ pool_calls = [c \in PoolCallers |-> PoolCallIdle]
    /\ pooled = [h \in Handles |-> NoHandle]
    /\ channels = 0

PIdle ==
    /\ pool_max_connections = 1
    /\ semaphore = 1
    /\ idle_connections = <<>>
    /\ active_connections = [k \in ConnIds |-> NoConn]
    /\ idle_lock = None
    /\ active_lock = None
    /\ is_shutdown = FALSE
    /\ shutdown_pc = "idle"
    /\ pool_calls = [c \in PoolCallers |-> PoolCallIdle]
    /\ pooled = [h \in Handles |-> NoHandle]
    /\ channels = 0

\* The calls of acquire begun so far: those in progress and those returned.
Issued == Cardinality({h \in Handles : pooled[h].pc # "none"})

InAcquire == Cardinality({c \in PoolCallers : pool_calls[c].pc # "idle"})

NextHandle == Issued + 1

\* mark_in_use
MarkInUse(conn) == [conn EXCEPT !.use_count = @ + 1]

\* idle.retain(|conn| !conn.is_expired(..)), expired being the positions of
\* the connections that are expired now.
RECURSIVE Retain(_, _, _)
Retain(idle, expired, i) ==
    IF i > Len(idle) THEN <<>>
    ELSE (IF i \in expired THEN <<>> ELSE <<idle[i]>>) \o Retain(idle, expired, i + 1)

\* Ok(PooledConnection { pool, conn_id }): the handle goes to the caller and
\* the local _permit is dropped with the frame of acquire.
ReturnHandle(c, conn) ==
    /\ active_connections' = [active_connections EXCEPT ![conn.use_count] = conn]
    /\ pooled' = [pooled EXCEPT ![NextHandle] =
                     [pc |-> "held", conn_id |-> conn.use_count, conn |-> NoConn]]
    /\ pool_calls' = [pool_calls EXCEPT ![c] = [PoolCallIdle EXCEPT !.result = "Ok"]]
    /\ semaphore' = semaphore + 1

\* acquire, lines 148-152: the is_shutdown check.
AcquireEnter(c) ==
    /\ pool_calls[c].pc = "idle"
    /\ Issued + InAcquire < MaxAcquires
    /\ pool_calls' = [pool_calls EXCEPT ![c] =
                         IF is_shutdown THEN [PoolCallIdle EXCEPT !.result = "Internal"]
                         ELSE [PoolCallIdle EXCEPT !.pc = "wait_permit"]]
    /\ UNCHANGED <<pool_max_connections, semaphore, idle_connections, active_connections,
                   idle_lock, active_lock, is_shutdown, shutdown_pc, pooled, channels>>
    /\ UNCHANGED notP

\* acquire, lines 155-161: semaphore.acquire() completes.
AcquirePermit(c) ==
    /\ pool_calls[c].pc = "wait_permit"
    /\ semaphore > 0
    /\ semaphore' = semaphore - 1
    /\ pool_calls' = [pool_calls EXCEPT ![c].pc = "lock_idle"]
    /\ UNCHANGED <<pool_max_connections, idle_connections, active_connections,
                   idle_lock, active_lock, is_shutdown, shutdown_pc, pooled, channels>>
    /\ UNCHANGED notP

\* acquire, lines 155-160: acquire_timeout_secs pass without a permit.
AcquireTimeout(c) ==
    /\ pool_calls[c].pc = "wait_permit"
    /\ semaphore = 0
    /\ pool_calls' = [pool_calls EXCEPT ![c] = [PoolCallIdle EXCEPT !.result = "Timeout"]]
    /\ UNCHANGED <<pool_max_connections, semaphore, idle_connections, active_connections,
                   idle_lock, active_lock, is_shutdown, shutdown_pc, pooled, channels>>
    /\ UNCHANGED notP

\* acquire, lines 164-205: under the idle mutex, drop the expired connections
\* (is_healthy is always true) and pop one; the mutex stays held while the
\* call waits for the write lock of the active map.
AcquireIdle(c, expired) ==
    /\ pool_calls[c].pc = "lock_idle"
    /\ idle_lock = None
    /\ LET kept == Retain(idle_connections, expired, 1)
       IN IF kept # <<>>
          THEN /\ idle_connections' = SubSeq(kept, 1, Len(kept) - 1)
               /\ idle_lock' = c
               /\ pool_calls' = [pool_calls EXCEPT ![c] =
                      [pc |-> "insert_idle", conn |-> MarkInUse(kept[Len(kept)]),
                       result |-> None]]
          ELSE /\ idle_connections' = kept
               /\ idle_lock' = None
               /\ pool_calls' = [pool_calls EXCEPT ![c].pc = "connecting"]
    /\ UNCHANGED <<pool_max_connections, semaphore, active_connections, active_lock,
                   is_shutdown, shutdown_pc, pooled, channels>>
    /\ UNCHANGED notP

\* acquire, lines 192-203: insert the popped connection and return the handle.
AcquireInsertIdle(c) ==
    /\ pool_calls[c].pc = "insert_idle"
    /\ active_lock = None
    /\ ReturnHandle(c, pool_calls[c].conn)
    /\ idle_lock' = None
    /\ UNCHANGED <<pool_max_connections, idle_connections, active_lock, is_shutdown,
                   shutdown_pc, channels>>
    /\ UNCHANGED notP

\* acquire, lines 210-218: create_connection returns or fails.
AcquireConnected(c, ok) ==
    /\ pool_calls[c].pc = "connecting"
    /\ IF ok
       THEN /\ channels' = channels + 1
            /\ pool_calls' = [pool_calls EXCEPT ![c] =
                   [pc |-> "insert_new",
                    conn |-> MarkInUse([channel |-> channels + 1, use_count |-> 0]),
                    result |-> None]]
            /\ UNCHANGED semaphore
       ELSE /\ pool_calls' = [pool_calls EXCEPT ![c] =
                   [PoolCallIdle EXCEPT !.result = "Network"]]
            /\ semaphore' = semaphore + 1
            /\ UNCHANGED channels
    /\ UNCHANGED <<pool_max_connections, idle_connections, active_connections,
                   idle_lock, active_lock, is_shutdown, shutdown_pc, pooled>>
    /\ UNCHANGED notP

\* acquire, lines 220-231: insert the new connection and return the handle.
AcquireInsertNew(c) ==
    /\ pool_calls[c].pc = "insert_new"
    /\ active_lock = None
    /\ ReturnHandle(c, pool_calls[c].conn)
    /\ UNCHANGED <<pool_max_connections, idle_connections, idle_lock, active_lock,
                   is_shutdown, shutdown_pc, channels>>
    /\ UNCHANGED notP

\* Drop for PooledConnection: spawn the task that calls release.
DropHandle(h) ==
    /\ pooled[h].pc = "held"
    /\ pooled' = [pooled EXCEPT ![h].pc = "release"]
    /\ UNCHANGED <<pool_max_connections, semaphore, idle_connections, active_connections,
                   idle_lock, active_lock, is_shutdown, shutdown_pc, pool_calls, channels>>
    /\ UNCHANGED notP

\* release, lines 237-247: take the write lock, remove the entry; an expired
\* or absent connection ends the call.
ReleaseRemove(h, expired) ==
    /\ pooled[h].pc = "release"
    /\ active_lock = None
    /\ LET conn == active_connections[pooled[h].conn_id]
       IN IF conn = NoConn \/ expired
          THEN /\ pooled' = [pooled EXCEPT ![h].pc = "done"]
               /\ UNCHANGED active_lock
          ELSE /\ pooled' = [pooled EXCEPT ![h] =
                      [pc |-> "release_check", conn_id |-> @.conn_id, conn |-> conn]]
               /\ active_lock' = "release"
    /\ active_connections' = [active_connections EXCEPT ![pooled[h].conn_id] = NoConn]
    /\ UNCHANGED <<pool_max_connections, semaphore, idle_connections, idle_lock,
                   is_shutdown, shutdown_pc, pool_calls, channels>>
    /\ UNCHANGED notP

\* A variant that lets the idle set grow to max_connections + 1.
ReleaseCheckOver(h) ==
    /\ pooled[h].pc = "release_check"
    /\ idle_lock = None
    /\ IF Len(idle_connections) > pool_max_connections
       THEN /\ pooled' = [pooled EXCEPT ![h] =
                   [pc |-> "done", conn_id |-> @.conn_id, conn |-> NoConn]]
            /\ active_lock' = None
       ELSE /\ pooled' = [pooled EXCEPT ![h].pc = "release_push"]
            /\ UNCHANGED active_lock
    /\ UNCHANGED <<pool_max_connections, semaphore, idle_connections, active_connections,
                   idle_lock, is_shutdown, shutdown_pc, pool_calls, channels>>
    /\ UNCHANGED notP

\* release, lines 249-255: under the idle mutex compare idle.len() with
\* max_connections, then give the mutex back.
ReleaseCheck(h) ==
    /\ pooled[h].pc = "release_check"
    /\ idle_lock = None
    /\ IF Len(idle_connections) >= pool_max_connections
       THEN /\ pooled' = [pooled EXCEPT ![h] =
                   [pc |-> "done", conn_id |-> @.conn_id, conn |-> NoConn]]
            /\ active_lock' = None
       ELSE /\ pooled' = [pooled EXCEPT ![h].pc = "release_push"]
            /\ UNCHANGED active_lock
    /\ UNCHANGED <<pool_max_connections, semaphore, idle_connections, active_connections,
                   idle_lock, is_shutdown, shutdown_pc, pool_calls, channels>>
    /\ UNCHANGED notP

\* release, lines 256-258: take the idle mutex again and push.
ReleasePush(h) ==
    /\ pooled[h].pc = "release_push"
    /\ idle_lock = None
    /\ idle_connections' = Append(idle_connections, pooled[h].conn)
    /\ pooled' = [pooled EXCEPT ![h] =
           [pc |-> "done", conn_id |-> @.conn_id, conn |-> NoConn]]
    /\ active_lock' = None
    /\ UNCHANGED <<pool_max_connections, semaphore, active_connections, idle_lock,
                   is_shutdown, shutdown_pc, pool_calls, channels>>
    /\ UNCHANGED notP

\* shutdown, line 278.
ShutdownStart ==
    /\ shutdown_pc = "idle"
    /\ is_shutdown' = TRUE
    /\ shutdown_pc' = "clear_idle"
    /\ UNCHANGED <<pool_max_connections, semaphore, idle_connections, active_connections,
                   idle_lock, active_lock, pool_calls, pooled, channels>>
    /\ UNCHANGED notP

\* shutdown, line 281.
ShutdownClearIdle ==
    /\ shutdown_pc = "clear_idle"
    /\ idle_lock = None
    /\ idle_connections' = <<>>
    /\ shutdown_pc' = "clear_active"
    /\ UNCHANGED <<pool_max_connections, semaphore, active_connections, idle_lock,
                   active_lock, is_shutdown, pool_calls, pooled, channels>>
    /\ UNCHANGED notP

\* shutdown, line 282.
ShutdownClearActive ==
    /\ shutdown_pc = "clear_active"
    /\ active_lock = None
    /\ active_connections' = [k \in ConnIds |-> NoConn]
    /\ shutdown_pc' = "done"
    /\ UNCHANGED <<pool_max_connections, semaphore, idle_connections, idle_lock,
                   active_lock, is_shutdown, pool_calls, pooled, channels>>
    /\ UNCHANGED notP

PNext ==
    \/ \E c \in PoolCallers : AcquireEnter(c)
    \/ \E c \in PoolCallers : AcquirePermit(c)
    \/ \E c \in PoolCallers : AcquireTimeout(c)
    \/ \E c \in PoolCallers : \E expired \in SUBSET (1..Len(idle_connections)) :
           AcquireIdle(c, expired)
    \/ \E c \in PoolCallers : AcquireInsertIdle(c)
    \/ \E c \in PoolCallers : \E ok \in BOOLEAN : AcquireConnected(c, ok)
    \/ \E c \in PoolCallers : AcquireInsertNew(c)
    \/ \E h \in Handles : DropHandle(h)
    \/ \E h \in Handles : \E expired \in BOOLEAN : ReleaseRemove(h, expired)
    \/ \E h \in Handles : ReleaseCheck(h)
    \/ \E h \in Handles : ReleasePush(h)
    \/ ShutdownStart
    \/ ShutdownClearIdle
    \/ ShutdownClearActive

\* The PooledConnection handles that were returned and not yet dropped.
Outstanding == {h \in Handles : pooled[h].pc = "held"}

\* C13: at every moment the number of outstanding PooledConnection handles
\* is at most max_connections (so an acquire issued with max_connections
\* handles outstanding cannot return before one of them is released).
C13_PoolBound == Cardinality(Outstanding) <= pool_max_connections

\* C32: the idle set never holds more than max_connections channels; a
\* release that found its channel unexpired puts it back exactly when the
\* idle set holds fewer than max_connections channels, and a release that
\* ends otherwise leaves the idle set as it was.
C32_IdleSetBound ==
    [][/\ Len(idle_connections') <= pool_max_connections
       /\ \A h \in Handles :
            LET before == pooled[h]
                after == pooled'[h]
            IN /\ (before.pc = "release_check" /\ after.pc # "release_check") =>
                      IF Len(idle_connections) < pool_max_connections
                      THEN after.pc = "release_push"
                      ELSE after.pc = "done" /\ idle_connections' = idle_connections
               /\ (before.pc = "release_push" /\ after.pc = "done") =>
                      idle_connections' = Append(idle_connections, before.conn)
               /\ (before.pc = "release" /\ after.pc = "done") =>
                      idle_connections' = idle_connections]_vars

\* A release has taken its unexpired channel out of the active map while
\* the idle set is full.
C32_Witness ==
    \E h \in Handles :
        /\ pooled[h].pc = "release_check"
        /\ Len(idle_connections) = pool_max_connections

\* Caller c of acquire holds the idle mutex and waits for the write lock of
\* the active map.
AcquireWaitsForActive(c) ==
    /\ pool_calls[c].pc = "insert_idle"
    /\ idle_lock = c
    /\ active_lock # None

\* The release of handle h holds the write lock of the active map and
\* waits for the idle mutex.
ReleaseWaitsForIdle(h) ==
    /\ pooled[h].pc \in {"release_check", "release_push"}
    /\ active_lock = "release"
    /\ idle_lock # None

\* C36: no state is reached in which an acquire holds the idle mutex and
\* waits for the active map while a release holds the active map and waits
\* for the idle mutex, a state neither call can leave.
C36_PoolDeadlockFreedom ==
    ~ \E c \in PoolCallers, h \in Handles :
          AcquireWaitsForActive(c) /\ ReleaseWaitsForIdle(h)

\* C37: two handles outstanding at the same time have different connection
\* ids, and while the pool is not shut down the id of every outstanding
\* handle has its entry in the active map, which get_client reads.
C37_PooledHandlesDistinct ==
    /\ \A h1, h2 \in Outstanding :
           h1 # h2 => pooled[h1].conn_id # pooled[h2].conn_id
    /\ \A h \in Outstanding :
           ~is_shutdown => active_connections[pooled[h].conn_id] # NoConn

(***************************************************************************)
(* transfer.rs: TransferManager::upload_file, download_file, batch_upload, *)
(* batch_download and clone_manager.  Manager 0 is the TransferManager the *)
(* callers hold; manager t is the clone made for the spawned task t.       *)
(***************************************************************************)
MaxTransfers == 3

\* The values of max_concurrent_uploads and max_concurrent_downloads tried.
ConcurrencyLimits == {1, 2}

ChunkSize == 4194304

DownloadPlaceholderBytes == 1048576

notT == <<wVars, sVars, rVars, eVars, dVars, qVars, nVars, xVars, pVars, jVars, cVars, fVars, kVars, gVars, uVars, aVars, mVars>>

TransferTasks == 1..MaxTransfers

Managers == 0..MaxTransfers

TransferKinds == {"upload", "download"}

TransferContents == {<<>>, <<7, 8>>}

\* TransferManager::calculate_hash: the SHA-256 of the bytes, as a value
\* that differs exactly when the bytes differ.
CalculateHash(content) == <<"sha256", content>>

NoProgress == [total_bytes |-> 0, transferred_bytes |-> 0, is_completed |-> FALSE]

NoTransfer ==
    [kind |-> None, manager |-> 0, pc |-> "none", file_hash |-> <<>>,
     file_size |-> 0, progress |-> NoProgress, result |-> None]

\* Semaphore::new(max_concurrent_uploads), Semaphore::new(max_concurrent_downloads)
NewSemaphores(config) ==
    [upload |-> config.max_concurrent_uploads,
     download |-> config.max_concurrent_downloads]

TInit ==
    /\ tm_config \in [max_concurrent_uploads : ConcurrencyLimits,
                      max_concurrent_downloads : ConcurrencyLimits]
    /\ tm_semaphores = [mgr \in Managers |-> NewSemaphores(tm_config)]
    /\ transfers = [t \in TransferTasks |-> NoTransfer]
    /\ tm_batch = {}
    /\ tm_file \in TransferContents
    /\ tm_server = None

TIdle ==
    /\ tm_config = [max_concurrent_uploads |-> 1, max_concurrent_downloads |-> 1]
    /\ tm_semaphores = [mgr \in Managers |-> NewSemaphores(tm_config)]
    /\ transfers = [t \in TransferTasks |-> NoTransfer]
    /\ tm_batch = {}
    /\ tm_file = <<>>
    /\ tm_server = None

\* The request a caller builds for the file as it is now.
NewTransfer(kind, mgr) ==
    [kind |-> kind, manager |-> mgr, pc |-> "wait",
     file_hash |-> IF kind = "upload" THEN CalculateHash(tm_file) ELSE <<>>,
     file_size |-> IF kind = "upload" THEN Len(tm_file) ELSE 0,
     progress |-> NoProgress, result |-> None]

FreeTasks == {t \in TransferTasks : transfers[t].pc = "none"}

\* The n lowest free task numbers.
RECURSIVE Lowest(_, _)
Lowest(S, n) ==
    IF n = 0 \/ S = {} THEN {}
    ELSE LET lo == CHOOSE t \in S : \A u \in S : t <= u
         IN {lo} \cup Lowest(S \ {lo}, n - 1)

\* A caller calls upload_file or download_file on the manager itself.
TransferCall(kind) ==
    /\ tm_batch = {}
    /\ FreeTasks # {}
    /\ LET t == CHOOSE t \in FreeTasks : \A u \in FreeTasks : t <= u
       IN transfers' = [transfers EXCEPT ![t] = NewTransfer(kind, 0)]
    /\ UNCHANGED <<tm_config, tm_semaphores, tm_batch, tm_file, tm_server>>
    /\ UNCHANGED notT

\* batch_upload / batch_download with n requests: one spawned task per
\* request, each on manager = self.clone_manager().
Batch(kind, n) ==
    /\ tm_batch = {}
    /\ Cardinality(FreeTasks) >= n
    /\ LET spawned == Lowest(FreeTasks, n)
       IN /\ transfers' = [t \in TransferTasks |->
                              IF t \in spawned THEN NewTransfer(kind, t)
                              ELSE transfers[t]]
          /\ tm_semaphores' = [mgr \in Managers |->
                                  IF mgr \in spawned THEN NewSemaphores(tm_config)
                                  ELSE tm_semaphores[mgr]]
          /\ tm_batch' = spawned
    /\ UNCHANGED <<tm_config, tm_file, tm_server>>
    /\ UNCHANGED notT

\* batch_upload / batch_download: every handle has been awaited.
BatchReturn ==
    /\ tm_batch # {}
    /\ \A t \in tm_batch : transfers[t].pc = "done"
    /\ tm_batch' = {}
    /\ UNCHANGED <<tm_config, tm_semaphores, transfers, tm_file, tm_server>>
    /\ UNCHANGED notT

\* upload_file line 175, download_file line 249: semaphore.acquire()
TransferPermit(t) ==
    /\ transfers[t].pc = "wait"
    /\ tm_semaphores[transfers[t].manager][transfers[t].kind] > 0
    /\ tm_semaphores' = [tm_semaphores EXCEPT
                            ![transfers[t].manager][transfers[t].kind] = @ - 1]
    /\ transfers' = [transfers EXCEPT ![t].pc = "running"]
    /\ UNCHANGED <<tm_config, tm_batch, tm_file, tm_server>>
    /\ UNCHANGED notT

\* The bytes counted by the loop over file_content.chunks(chunk_size).
RECURSIVE ChunkedBytes(_)
ChunkedBytes(len) ==
    IF len = 0 THEN 0
    ELSE IF len <= ChunkSize THEN len
    ELSE ChunkSize + ChunkedBytes(len - ChunkSize)

\* upload_file lines 191-235: read the file, compare its hash with the
\* request's, count the chunks (nothing is sent), return and drop the permit.
UploadFinish(t) ==
    /\ transfers[t].pc = "running"
    /\ transfers[t].kind = "upload"
    /\ LET tr == transfers[t]
       IN transfers' = [transfers EXCEPT ![t] =
              IF CalculateHash(tm_file) # tr.file_hash
              THEN [tr EXCEPT !.pc = "done", !.result = "Err"]
              ELSE [tr EXCEPT !.pc = "done", !.result = "Ok",
                       !.progress = [total_bytes |-> tr.file_size,
                                     transferred_bytes |-> ChunkedBytes(Len(tm_file)),
                                     is_completed |-> TRUE]]]
    /\ tm_semaphores' = [tm_semaphores EXCEPT ![transfers[t].manager].upload = @ + 1]
    /\ UNCHANGED <<tm_config, tm_batch, tm_file, tm_server>>
    /\ UNCHANGED notT

\* download_file lines 268-284: create the parent directory, report one
\* mebibyte as transferred, return and drop the permit.  Nothing is
\* received and nothing is written.
DownloadFinish(t) ==
    /\ transfers[t].pc = "running"
    /\ transfers[t].kind = "download"
    /\ transfers' = [transfers EXCEPT ![t] =
           [@ EXCEPT !.pc = "done", !.result = "Ok",
               !.progress = [total_bytes |-> DownloadPlaceholderBytes,
                             transferred_bytes |-> DownloadPlaceholderBytes,
                             is_completed |-> TRUE]]]
    /\ tm_semaphores' = [tm_semaphores EXCEPT ![transfers[t].manager].download = @ + 1]
    /\ UNCHANGED <<tm_config, tm_batch, tm_file, tm_server>>
    /\ UNCHANGED notT

\* Someone writes the local file while an upload of it is under way.
WriteFile(content) ==
    /\ content # tm_file
    /\ \E t \in TransferTasks : /\ transfers[t].kind = "upload"
                                /\ transfers[t].pc \in {"wait", "running"}
    /\ tm_file' = content
    /\ UNCHANGED <<tm_config, tm_semaphores, transfers, tm_batch, tm_server>>
    /\ UNCHANGED notT

TNext ==
    \/ \E kind \in TransferKinds : TransferCall(kind)
    \/ \E kind \in TransferKinds : \E n \in 1..MaxTransfers : Batch(kind, n)
    \/ BatchReturn
    \/ \E t \in TransferTasks : TransferPermit(t)
    \/ \E t \in TransferTasks : UploadFinish(t)
    \/ \E t \in TransferTasks : DownloadFinish(t)
    \/ \E content \in TransferContents : WriteFile(content)

\* The transfers of a kind that hold a permit and have not returned.
InProgress(kind) ==
    {t \in TransferTasks : transfers[t].kind = kind /\ transfers[t].pc = "running"}

\* C14: at most max_concurrent_uploads uploads and max_concurrent_downloads
\* downloads of the TransferManager are in progress at a time, those of
\* batch_upload and batch_download included.
C14_TransferConcurrencyBound ==
    /\ Cardinality(InProgress("upload")) <= tm_config.max_concurrent_uploads
    /\ Cardinality(InProgress("download")) <= tm_config.max_concurrent_downloads

CompletedDownloads ==
    {t \in TransferTasks : /\ transfers[t].kind = "download"
                           /\ transfers[t].progress.is_completed}

CompletedUploads ==
    {t \in TransferTasks : /\ transfers[t].kind = "upload"
                           /\ transfers[t].progress.is_completed}

\* C15: a download reports completion only when the bytes it received hash
\* to the hash the server holds for the file, and after an upload of the
\* unchanged file these are the bytes that were uploaded: the server holds
\* them and the download transferred as many.
C15_TransferRoundTrip ==
    \A d \in CompletedDownloads :
        /\ tm_server # None
        /\ \A u \in CompletedUploads :
               transfers[u].file_hash = CalculateHash(tm_file) =>
                   /\ CalculateHash(tm_server) = transfers[u].file_hash
                   /\ transfers[d].progress.transferred_bytes = transfers[u].file_size

(***************************************************************************)
(* conflict.rs: the JSON values of serde_json and                          *)
(* ConflictResolver::merge_json_values_without_base.  An object is a       *)
(* function from its keys to values.                                       *)
(***************************************************************************)
notJ == <<wVars, sVars, rVars, eVars, dVars, qVars, nVars, xVars, pVars, tVars, cVars, fVars, kVars, gVars, uVars, aVars, mVars>>

JsonKeys == {"a", "b"}

Number(n) == [kind |-> "number", value |-> n]

Array(items) == [kind |-> "array", items |-> items]

Object(members) == [kind |-> "object", members |-> members]

IsObject(v) == v.kind = "object"

JsonLeaves == {Number(1), Array(<<Number(2)>>)}

ObjectsOver(values) ==
    {Object(members) : members \in UNION {[K -> values] : K \in SUBSET JsonKeys}}

\* The values without an object inside an object.
JsonFlat == JsonLeaves \cup ObjectsOver(JsonLeaves)

JsonValues == JsonFlat \cup ObjectsOver(JsonFlat)

NoJsonMerge == [called |-> FALSE, local |-> Number(1), remote |-> Number(1),
                merged |-> Number(1)]

\* The arguments of the call are drawn here; the call fills in merged.
JInit ==
    \E local \in JsonValues : \E remote \in JsonValues :
        json_merge = [called |-> FALSE, local |-> local, remote |-> remote,
                      merged |-> Number(1)]

JIdle == json_merge = NoJsonMerge

RECURSIVE MergeJsonValuesWithoutBase(_, _)

\* A merge that keeps local's value for every key of both sides.
MergeJsonValuesWithoutBaseShallow(local, remote) ==
    IF IsObject(local) /\ IsObject(remote)
    THEN LET local_map == local.members
             remote_map == remote.members
         IN Object([key \in DOMAIN local_map \cup DOMAIN remote_map |->
                IF key \in DOMAIN local_map THEN local_map[key] ELSE remote_map[key]])
    ELSE local

\* merge_json_values_without_base: merged starts as a clone of local_map;
\* every key of remote_map is inserted, with the recursive merge when
\* local_map has the key and with remote's value when it has not.
MergeJsonValuesWithoutBase(local, remote) ==
    IF IsObject(local) /\ IsObject(remote)
    THEN LET local_map == local.members
             remote_map == remote.members
         IN Object([key \in DOMAIN local_map \cup DOMAIN remote_map |->
                IF key \in DOMAIN remote_map
                THEN IF key \in DOMAIN local_map
                     THEN MergeJsonValuesWithoutBase(local_map[key], remote_map[key])
                     ELSE remote_map[key]
                ELSE local_map[key]])
    ELSE local

MergeJsonValuesWithoutBaseCall ==
    /\ ~json_merge.called
    /\ json_merge' = [json_merge EXCEPT
           !.called = TRUE,
           !.merged = MergeJsonValuesWithoutBase(json_merge.local, json_merge.remote)]
    /\ UNCHANGED notJ

JNext == MergeJsonValuesWithoutBaseCall

\* m is the left-biased deep merge of l and r.
RECURSIVE LeftBiasedDeepMerge(_, _, _)
LeftBiasedDeepMerge(l, r, m) ==
    IF IsObject(l) /\ IsObject(r)
    THEN /\ IsObject(m)
         /\ DOMAIN m.members = DOMAIN l.members \cup DOMAIN r.members
         /\ \A key \in DOMAIN m.members :
               IF key \in DOMAIN l.members /\ key \in DOMAIN r.members
               THEN IF IsObject(l.members[key]) /\ IsObject(r.members[key])
                    THEN LeftBiasedDeepMerge(l.members[key], r.members[key],
                                             m.members[key])
                    ELSE m.members[key] = l.members[key]
               ELSE IF key \in DOMAIN l.members
                    THEN m.members[key] = l.members[key]
                    ELSE m.members[key] = r.members[key]
    ELSE m = l

\* C17: the JSON merge without base is a left-biased deep merge: the merged
\* object has every key of local and of remote; where both sides have the
\* key and both values are objects the values are merged by the same rule,
\* otherwise local's value is kept; a key of one side keeps that value.
C17_JsonMergeWithoutBase ==
    json_merge.called =>
        LeftBiasedDeepMerge(json_merge.local, json_merge.remote, json_merge.merged)

\* Both sides are objects, "a" holds objects that disagree on their key "a",
\* and "b" is on the remote side only, in the object and inside "a".
C17_Witness ==
    /\ json_merge.called
    /\ json_merge.local = Object([key \in {"a"} |-> Object([k \in {"a"} |-> Number(1)])])
    /\ json_merge.remote =
           Object([key \in {"a", "b"} |->
               IF key = "a"
               THEN Object([k \in {"a", "b"} |-> Array(<<Number(2)>>)])
               ELSE Array(<<Number(2)>>)])
    /\ json_merge.merged =
           Object([key \in {"a", "b"} |->
               IF key = "a"
               THEN Object([k \in {"a", "b"} |->
                        IF k = "a" THEN Number(1) ELSE Array(<<Number(2)>>)])
               ELSE Array(<<Number(2)>>)])

(***************************************************************************)
(* conflict.rs: ConflictResolver::resolve with its merges.  The contents   *)
(* are strings; a JSON or YAML merge parses them, merges the values and    *)
(* serializes the result.  serde_json keeps the keys of a map sorted.      *)
(***************************************************************************)
notC == <<wVars, sVars, rVars, eVars, dVars, qVars, nVars, xVars, pVars, tVars, jVars, fVars, kVars, gVars, uVars, aVars, mVars>>

ConflictType == {"ModifyModify", "ModifyDelete", "BinaryConflict"}

ResolutionStrategies == {"KeepLocal", "KeepRemote", "KeepNewer", "AutoMerge", "Manual"}

ConflictResolvers ==
    [default_strategy : ResolutionStrategies, auto_merge_text : BOOLEAN,
     auto_merge_structured : BOOLEAN]

ResolvePaths == {"a.md", "a.json", "a.yaml", "a.exe", "Makefile"}

\* Path::extension, lowercased, for the paths of the model ("": none).
PathExtension(path) ==
    CASE path = "a.md" -> "md"
      [] path = "a.json" -> "json"
      [] path = "a.yaml" -> "yaml"
      [] path = "a.exe" -> "exe"
      [] OTHER -> ""

\* rules.rs detect_file_type
DetectFileTypeByExtension(path) ==
    LET ext_str == PathExtension(path) IN
    CASE ext_str = "" -> "unknown"
      [] ext_str \in {"md", "rst", "txt"} -> "text"
      [] ext_str = "json" -> "json"
      [] ext_str \in {"yaml", "yml"} -> "yaml"
      [] ext_str = "toml" -> "toml"
      [] ext_str = "xml" -> "xml"
      [] ext_str \in {"exe", "dll", "so", "dylib"} -> "binary"
      [] ext_str \in {"png", "jpg", "jpeg", "gif", "bmp", "ico"} -> "image"
      [] ext_str = "pdf" -> "pdf"
      [] ext_str \in {"zip", "tar", "gz", "rar", "7z"} -> "archive"
      [] OTHER -> ext_str

String(s) == [kind |-> "string", value |-> s]

KeyOrder == <<"a", "b">>

\* The documents the contents of the model can denote.
DocValues ==
    {Object(members) :
        members \in UNION {[K -> {Number(1), Number(2)}] : K \in SUBSET JsonKeys}}

\* The keys of a map in the order serde_json iterates them.
RECURSIVE SortedKeys(_, _)
SortedKeys(members, i) ==
    IF i > Len(KeyOrder) THEN <<>>
    ELSE (IF KeyOrder[i] \in DOMAIN members THEN <<KeyOrder[i]>> ELSE <<>>)
         \o SortedKeys(members, i + 1)

RECURSIVE Indent(_)
Indent(level) == IF level = 0 THEN "" ELSE "  " \o Indent(level - 1)

RECURSIVE ToStringPretty(_, _)
RECURSIVE PrettyMembers(_, _, _)
RECURSIVE PrettyItems(_, _, _)

PrettyMembers(members, keys, level) ==
    IF keys = <<>> THEN ""
    ELSE Indent(level) \o "\"" \o Head(keys) \o "\": "
         \o ToStringPretty(members[Head(keys)], level)
         \o (IF Len(keys) > 1 THEN ",\n" ELSE "\n")
         \o PrettyMembers(members, Tail(keys), level)

PrettyItems(items, i, level) ==
    IF i > Len(items) THEN ""
    ELSE Indent(level) \o ToStringPretty(items[i], level)
         \o (IF i < Len(items) THEN ",\n" ELSE "\n")
         \o PrettyItems(items, i + 1, level)

\* serde_json::to_string_pretty, with v at nesting depth level.
ToStringPretty(v, level) ==
    CASE v.kind = "number" -> ToString(v.value)
      [] v.kind = "string" -> "\"" \o v.value \o "\""
      [] v.kind = "array" ->
            IF v.items = <<>> THEN "[]"
            ELSE "[\n" \o PrettyItems(v.items, 1, level + 1) \o Indent(level) \o "]"
      [] v.kind = "object" ->
            IF DOMAIN v.members = {} THEN "{}"
            ELSE "{\n" \o PrettyMembers(v.members, SortedKeys(v.members, 1), level + 1)
                 \o Indent(level) \o "}"

RECURSIVE CompactMembers(_, _)
CompactMembers(members, keys) ==
    IF keys = <<>> THEN ""
    ELSE "\"" \o Head(keys) \o "\":" \o ToString(members[Head(keys)].value)
         \o (IF Len(keys) > 1 THEN "," ELSE "")
         \o CompactMembers(members, Tail(keys))

\* A document of DocValues written on one line, as a user may have it.
CompactText(v) == "{" \o CompactMembers(v.members, SortedKeys(v.members, 1)) \o "}"

RECURSIVE YamlMembers(_, _)
YamlMembers(members, keys) ==
    IF keys = <<>> THEN ""
    ELSE Head(keys) \o ": " \o ToString(members[Head(keys)].value) \o "\n"
         \o YamlMembers(members, Tail(keys))

\* serde_yaml::to_string for a plain string and for the documents of DocValues.
ToStringYaml(v) ==
    CASE v.kind = "string" -> v.value \o "\n"
      [] v.kind = "number" -> ToString(v.value) \o "\n"
      [] OTHER ->
            IF DOMAIN v.members = {} THEN "{}\n"
            ELSE YamlMembers(v.members, SortedKeys(v.members, 1))

ParseError == [ok |-> FALSE, value |-> Number(0)]

\* serde_json::from_str: the value whose text the string is, or an error.
ParseJson(s) ==
    LET read == {v \in DocValues : s \in {CompactText(v), ToStringPretty(v, 0)}}
    IN IF read = {} THEN ParseError
       ELSE [ok |-> TRUE, value |-> CHOOSE v \in read : TRUE]

\* The contents of the model that are no documents.
PlainTexts == {"L", "R"}

\* serde_yaml::from_str: block YAML, JSON (which is YAML in flow style),
\* and a plain scalar, whose line break is not part of the string.
ParseYaml(s) ==
    LET read == {v \in DocValues :
                    s \in {CompactText(v), ToStringPretty(v, 0), ToStringYaml(v)}}
        plain == {c \in PlainTexts : s \in {c, c \o "\n"}}
    IN IF read # {} THEN [ok |-> TRUE, value |-> CHOOSE v \in read : TRUE]
       ELSE IF plain # {} THEN [ok |-> TRUE, value |-> String(CHOOSE c \in plain : TRUE)]
       ELSE [ok |-> TRUE, value |-> String(s)]

\* merge_json_values: the three-way merge of the parsed values.
RECURSIVE MergeJsonValues(_, _, _)
MergeJsonValues(base, local, remote) ==
    CASE IsObject(base) /\ IsObject(local) /\ IsObject(remote) ->
            LET base_map == base.members
                local_map == local.members
                remote_map == remote.members
                all_keys == DOMAIN base_map \cup DOMAIN local_map \cup DOMAIN remote_map
                kept == {key \in all_keys :
                            key \in DOMAIN local_map \/ key \in DOMAIN remote_map}
            IN Object([key \in kept |->
                   IF key \in DOMAIN local_map /\ key \in DOMAIN remote_map
                   THEN IF local_map[key] = remote_map[key] THEN local_map[key]
                        ELSE IF key \in DOMAIN base_map
                             THEN MergeJsonValues(base_map[key], local_map[key],
                                                  remote_map[key])
                             ELSE local_map[key]
                   ELSE IF key \in DOMAIN local_map THEN local_map[key]
                        ELSE remote_map[key]])
      [] base.kind = "array" /\ local.kind = "array" /\ remote.kind = "array" -> remote
      [] OTHER -> local

\* The documents of a three-way merge: objects over the keys of the model
\* with two numbers and an array as member values.
ThreeWayLeaves == {Number(1), Number(2), Array(<<Number(2)>>)}

ThreeWayObjects == ObjectsOver(ThreeWayLeaves)

\* merge_json_values as merge_json calls it with a base: the arguments were
\* drawn at the start, the call fills in merged.
MergeJsonValuesCall ==
    /\ ~json_merge.called
    /\ json_merge' = [json_merge EXCEPT
           !.called = TRUE,
           !.merged = MergeJsonValues(json_merge.base, json_merge.local,
                                      json_merge.remote)]
    /\ UNCHANGED notJ

ThreeWayNext == MergeJsonValuesCall

\* The keys of a finished three-way merge that base, local and remote all
\* have.
CommonKeys ==
    DOMAIN json_merge.base.members \cap DOMAIN json_merge.local.members
        \cap DOMAIN json_merge.remote.members

\* C40: after merge_json_values with a base, a key whose value only remote
\* changed carries remote's value in the merged object, and a key whose
\* value only local changed carries local's.
C40_ThreeWayKeepsOneSidedChanges ==
    json_merge.called =>
        \A key \in CommonKeys :
            LET b == json_merge.base.members[key]
                l == json_merge.local.members[key]
                r == json_merge.remote.members[key]
                merged == json_merge.merged.members[key]
            IN /\ (l = b /\ r # b) => merged = r
               /\ (r = b /\ l # b) => merged = l

NoBase == [some |-> FALSE, content |-> ""]

SomeBase(content) == [some |-> TRUE, content |-> content]

NoConflict == [kind |-> "NoConflict", content |-> ""]

ResolveError == [kind |-> "Err", content |-> None]

\* merge_text
MergeText(local, remote, base) ==
    IF base.some
    THEN LET local_differs == base.content # local
             remote_differs == base.content # remote
             local_and_remote_different == local # remote
         IN IF local_differs /\ remote_differs /\ local_and_remote_different
            THEN ConflictMarker(local, remote)
            ELSE IF local_differs THEN Merged(local)
            ELSE IF remote_differs THEN Merged(remote)
            ELSE NoConflict
    ELSE ConflictMarker(local, remote)

\* The merge of the parsed values, with and without base.
MergeParsed(local_value, remote_value, base_value, has_base) ==
    IF has_base THEN MergeJsonValues(base_value, local_value, remote_value)
    ELSE MergeJsonValuesWithoutBase(local_value, remote_value)

\* merge_json
MergeJson(local, remote, base) ==
    LET local_value == ParseJson(local)
        remote_value == ParseJson(remote)
        base_value == IF base.some THEN ParseJson(base.content) ELSE ParseError
    IN IF ~local_value.ok \/ ~remote_value.ok \/ (base.some /\ ~base_value.ok)
       THEN ResolveError
       ELSE Merged(ToStringPretty(MergeParsed(local_value.value, remote_value.value,
                                              base_value.value, base.some), 0))

\* merge_yaml
MergeYaml(local, remote, base) ==
    LET local_value == ParseYaml(local)
        remote_value == ParseYaml(remote)
        base_value == IF base.some THEN ParseYaml(base.content) ELSE ParseError
    IN Merged(ToStringYaml(MergeParsed(local_value.value, remote_value.value,
                                       base_value.value, base.some)))

\* resolve_modify_modify
ResolveModifyModify(r, path, local, remote, base) ==
    LET file_type == DetectFileTypeByExtension(path) IN
    CASE file_type \in {"text", "md", "rst", "txt"} ->
            IF r.auto_merge_text THEN MergeText(local, remote, base)
            ELSE ConflictMarker(local, remote)
      [] file_type = "json" ->
            IF r.auto_merge_structured THEN MergeJson(local, remote, base)
            ELSE ConflictMarker(local, remote)
      [] file_type \in {"yaml", "yml"} ->
            IF r.auto_merge_structured THEN MergeYaml(local, remote, base)
            ELSE ConflictMarker(local, remote)
      [] OTHER ->
            CASE r.default_strategy = "KeepLocal" -> Merged(local)
              [] r.default_strategy = "KeepRemote" -> Merged(remote)
              [] OTHER -> ConflictMarker(local, remote)

\* resolve_modify_delete
ResolveModifyDelete(r, local, remote) ==
    CASE r.default_strategy = "KeepLocal" -> Merged(local)
      [] r.default_strategy = "KeepRemote" ->
            IF remote = "" THEN Merged(local) ELSE Merged(remote)
      [] OTHER -> ConflictMarker(local, remote)

\* ConflictResolver::resolve
ResolveConflict(r, path, local, remote, base, conflict_type) ==
    CASE conflict_type = "ModifyModify" -> ResolveModifyModify(r, path, local, remote, base)
      [] conflict_type = "ModifyDelete" -> ResolveModifyDelete(r, local, remote)
      [] conflict_type = "BinaryConflict" ->
            [kind |-> "Conflict", content |-> "binary conflict cannot be resolved"]

ResolveContents ==
    PlainTexts \cup
    {CompactText(Object([key \in {"a"} |-> Number(1)])),
     CompactText(Object([key \in {"b"} |-> Number(2)]))}

Bases == {NoBase} \cup {SomeBase(c) : c \in ResolveContents}

NoResolution ==
    [called |-> FALSE,
     resolver |-> [default_strategy |-> "Manual", auto_merge_text |-> FALSE,
                   auto_merge_structured |-> FALSE],
     path |-> "a.md", local |-> "L", remote |-> "L", base |-> NoBase,
     conflict_type |-> "ModifyModify", result |-> NoConflict]

\* The resolver and the arguments of the call are drawn here.
CInit ==
    \E r \in ConflictResolvers : \E path \in ResolvePaths :
    \E local \in ResolveContents : \E remote \in ResolveContents :
    \E base \in Bases : \E conflict_type \in ConflictType :
        resolution = [called |-> FALSE, resolver |-> r, path |-> path,
                      local |-> local, remote |-> remote, base |-> base,
                      conflict_type |-> conflict_type, result |-> NoConflict]

CIdle == resolution = NoResolution

ResolveCall ==
    /\ ~resolution.called
    /\ resolution' = [resolution EXCEPT
           !.called = TRUE,
           !.result = ResolveConflict(resolution.resolver, resolution.path,
                                      resolution.local, resolution.remote,
                                      resolution.base, resolution.conflict_type)]
    /\ UNCHANGED notC

\* The caller feeds the content of a Merged result back as local, with
\* remote equal to it.
ResolveAgain ==
    /\ resolution.called
    /\ resolution.result.kind = "Merged"
    /\ resolution' = [resolution EXCEPT
           !.called = FALSE,
           !.local = resolution.result.content,
           !.remote = resolution.result.content,
           !.result = NoConflict]
    /\ UNCHANGED notC

CNext == ResolveCall \/ ResolveAgain

\* C16: resolve called with local content equal to remote content returns
\* NoConflict, for every file type, conflict kind, default strategy and
\* base; so does the content of a Merged result fed back as local and remote.
C16_NoConflictOnEqualContent ==
    (resolution.called /\ resolution.local = resolution.remote) =>
        resolution.result.kind = "NoConflict"

\* C18: for a path whose detected type is binary, resolve returns an
\* unresolved Conflict, whatever the conflict kind and the default strategy.
C18_BinaryNeverAutoResolved ==
    (resolution.called /\ DetectFileTypeByExtension(resolution.path) = "binary") =>
        resolution.result.kind = "Conflict"

(***************************************************************************)
(* sync.rs and config.rs: the filters in front of sync_file.               *)
(* handle_file_event asks Config::should_exclude and Config::apply_rules;  *)
(* run_full_sync syncs what FileScanner::scan returns; sync_file itself    *)
(* asks nothing.  The paths are those of the sync engine above.            *)
(***************************************************************************)
MaxConfigRules == 1

notF == <<wVars, rVars, eVars, dVars, qVars, nVars, xVars, pVars, tVars, jVars, cVars, kVars, gVars, uVars, aVars, mVars>>

ExcludeDirs == {"plugins/cache"}

ExcludePatterns == {"*.sh"}

IncludeTypes == {"md"}

\* The SyncRule values of config.rs tried: rule_type is a string there.
ConfigRule(rule_type, file_type, priority, enabled) ==
    [rule_type |-> rule_type, pattern |-> "*.md", file_type |-> file_type,
     priority |-> priority, enabled |-> enabled]

ConfigRules ==
    {ConfigRule("include", None, 0, TRUE), ConfigRule("exclude", None, 0, TRUE),
     ConfigRule("exclude", None, 5, TRUE), ConfigRule("exclude", None, 5, FALSE),
     ConfigRule("exclude", "json", 5, TRUE)}

SyncConfigs ==
    [exclude_dirs : {ExcludeDirs}, exclude_patterns : SUBSET ExcludePatterns,
     include_types : SUBSET IncludeTypes, rules : SeqsUpTo(ConfigRules, MaxConfigRules)]

DefaultSyncConfig ==
    [exclude_dirs |-> {}, exclude_patterns |-> {}, include_types |-> {}, rules |-> <<>>]

\* glob::Pattern::matches_path for the patterns and the paths of the model.
GlobMatchesPath(pattern, path) ==
    CASE pattern = "*.sh" -> path = "run.sh"
      [] pattern = "*.md" -> path = "notes.md"
      [] OTHER -> FALSE

\* Path::starts_with: the paths of the model lie in claude_dir itself.
PathStartsWith(path, dir) == FALSE

\* Path::extension of the paths of the sync engine.
SyncPathExtension(path) ==
    CASE path = "notes.md" -> "md"
      [] path = "run.sh" -> "sh"
      [] OTHER -> ""

\* Config::should_exclude and FileScanner::should_exclude
ShouldExclude(config, path) ==
    \/ \E exclude_dir \in config.exclude_dirs : PathStartsWith(path, exclude_dir)
    \/ \E pattern \in config.exclude_patterns : GlobMatchesPath(pattern, path)

\* FileScanner::should_include
ShouldInclude(config, path) ==
    IF config.include_types = {} THEN TRUE
    ELSE IF SyncPathExtension(path) # ""
         THEN SyncPathExtension(path) \in config.include_types
         ELSE TRUE

\* Config::apply_rules: the loop over the rules from rule i on.
RECURSIVE ApplyRulesFrom(_, _, _, _, _, _)
ApplyRulesFrom(rs, i, path, file_type, should_sync, highest_priority) ==
    IF i > Len(rs) THEN should_sync
    ELSE LET rule == rs[i]
             applies == /\ rule.enabled
                        /\ rule.file_type = None \/ rule.file_type = file_type
                        /\ GlobMatchesPath(rule.pattern, path)
                        /\ rule.priority > highest_priority
         IN IF applies
            THEN ApplyRulesFrom(rs, i + 1, path, file_type,
                                rule.rule_type = "include", rule.priority)
            ELSE ApplyRulesFrom(rs, i + 1, path, file_type, should_sync,
                                highest_priority)

\* Config::apply_rules
ApplyRules(config, path, file_type) ==
    ApplyRulesFrom(config.rules, 1, path, file_type, TRUE, I32Min)

\* FileScanner::scan: the files of the directory that pass its two checks.
Scan(config) ==
    {p \in SPaths : ~ShouldExclude(config, p) /\ ShouldInclude(config, p)}

FInit == sync_config \in SyncConfigs

FIdle == sync_config = DefaultSyncConfig

\* sync_file called by a user of the engine.
SyncFileDirect(t, p) == SyncFileHash(t, p)

\* run_full_sync: one turn of the loop over scanner.scan().
RunFullSyncFile(p) ==
    /\ p \in Scan(sync_config)
    /\ SyncFileHash("full_sync", p)

FileEventTypes == {"Create", "Modify", "Remove", "Rename"}

\* handle_file_event: the two filters, then the match on the event type.
HandleFileEvent(p, event_type) ==
    /\ ~ShouldExclude(sync_config, p)
    /\ ApplyRules(sync_config, p, DetectFileType(p))
    /\ CASE event_type \in {"Create", "Modify"} -> SyncFileHash("incremental", p)
         [] event_type = "Remove" -> HandleFileRemoval(p)
         [] OTHER -> UNCHANGED vars

FNext ==
    \/ \E p \in SPaths, c \in Contents : EditFile(p, c)
    \/ \E p \in SPaths : SyncFileDirect("full_sync", p)
    \/ \E p \in SPaths : RunFullSyncFile(p)
    \/ \E p \in SPaths, event_type \in FileEventTypes : HandleFileEvent(p, event_type)
    \/ \E t \in Callers : SyncFileUpload(t)

\* The exclude-path filter or the rule filter rejects the path.
Rejected(p) ==
    \/ ShouldExclude(sync_config, p)
    \/ ~ApplyRules(sync_config, p, DetectFileType(p))

\* C20: a path that the exclude-path filter or the rule filter rejects is
\* never hashed, never uploaded and never entered into the sync-state map.
C20_Filtering ==
    \A p \in SPaths :
        Rejected(p) =>
            /\ sync_states[p] = NoState
            /\ \A t \in Callers : ~(sync_tasks[t].pc = "hashed" /\ sync_tasks[t].path = p)

(***************************************************************************)
(* server cache.rs: the per-user change queue.  push_file_change is RPUSH  *)
(* followed by LTRIM key -1000 -1, two commands on a pooled connection;    *)
(* get_file_changes is LPOP key count.  Each command is atomic in Redis,   *)
(* the pair is not.  A notification is the number of its RPUSH.            *)
(***************************************************************************)
MaxPushes == 3

MaxPops == 2

\* conn.ltrim(&key, -1000, -1)
ChangeQueueLimit == 1000

\* get_file_changes(&user_id, 10) in subscribe_changes and heartbeat
PopCount == 10

notK == <<wVars, sVars, rVars, eVars, dVars, qVars, nVars, xVars, pVars, tVars, jVars, cVars, fVars, gVars, uVars, aVars, mVars>>

Pushers == {"r1", "r2"}

PushIdle == [pc |-> "idle", item |-> 0, result |-> "none"]

\* The queue as earlier pushes have left it: n of them, none popped.
InitialLengths == {ChangeQueueLimit - 2, ChangeQueueLimit - 1, ChangeQueueLimit}

KInit ==
    /\ \E n \in InitialLengths :
        /\ change_list = [i \in 1..n |-> i]
        /\ next_change = n + 1
    /\ push_calls = [c \in Pushers |-> PushIdle]
    /\ pop_count = 0
    /\ trimmed = <<>>

KIdle ==
    /\ change_list = <<>>
    /\ push_calls = [c \in Pushers |-> PushIdle]
    /\ next_change = 1
    /\ pop_count = 0
    /\ trimmed = <<>>

\* Redis index: a negative index counts from the tail, -1 the last element.
RedisIndex(len, i) == IF i < 0 THEN len + i ELSE i

\* Redis LTRIM key start stop on a list (0-based, both ends included;
\* start past the end or after stop empties the list).
LTrim(list, start, stop) ==
    LET len == Len(list)
        s == IF RedisIndex(len, start) < 0 THEN 0 ELSE RedisIndex(len, start)
        e == IF RedisIndex(len, stop) >= len THEN len - 1 ELSE RedisIndex(len, stop)
    IN IF s >= len \/ s > e THEN <<>> ELSE SubSeq(list, s + 1, e + 1)

\* Redis LPOP key count: up to count elements from the head.
LPop(list, count) ==
    LET n == IF Len(list) < count THEN Len(list) ELSE count
    IN [popped |-> SubSeq(list, 1, n), list |-> SubSeq(list, n + 1, Len(list))]

\* What a trim from `list` to `kept` took away at the head.
TrimmedHead(list, kept) == SubSeq(list, 1, Len(list) - Len(kept))

\* push_file_change up to conn.rpush(&key, value).await?
PushRpush(c) ==
    /\ push_calls[c].pc = "idle"
    /\ next_change <= ChangeQueueLimit + MaxPushes
    /\ change_list' = Append(change_list, next_change)
    /\ next_change' = next_change + 1
    /\ push_calls' = [push_calls EXCEPT ![c] = [pc |-> "ltrim", item |-> next_change, result |-> "none"]]
    /\ UNCHANGED <<pop_count, trimmed, notK>>

\* A variant of the trim that keeps the head of the list (LTRIM key 0 999).
PushLtrimHead(c) ==
    /\ push_calls[c].pc = "ltrim"
    /\ change_list' = LTrim(change_list, 0, ChangeQueueLimit - 1)
    /\ trimmed' = trimmed \o SubSeq(change_list, Len(change_list') + 1, Len(change_list))
    /\ push_calls' = [push_calls EXCEPT ![c] = [@ EXCEPT !.pc = "idle", !.result = "Ok"]]
    /\ UNCHANGED <<next_change, pop_count, notK>>

\* push_file_change: conn.ltrim(&key, -1000, -1).await? and Ok(())
PushLtrim(c) ==
    /\ push_calls[c].pc = "ltrim"
    /\ change_list' = LTrim(change_list, -ChangeQueueLimit, -1)
    /\ trimmed' = trimmed \o TrimmedHead(change_list, change_list')
    /\ push_calls' = [push_calls EXCEPT ![c] = [@ EXCEPT !.pc = "idle", !.result = "Ok"]]
    /\ UNCHANGED <<next_change, pop_count, notK>>

\* push_file_change: the LTRIM command fails (connection lost) and `?`
\* returns the error; the item stays appended.
PushLtrimError(c) ==
    /\ push_calls[c].pc = "ltrim"
    /\ push_calls' = [push_calls EXCEPT ![c] = [@ EXCEPT !.pc = "idle", !.result = "Err"]]
    /\ UNCHANGED <<change_list, next_change, pop_count, trimmed, notK>>

\* get_file_changes(user_id, 10), as the subscribe and heartbeat loops call it.
GetFileChanges ==
    /\ pop_count < MaxPops
    /\ change_list' = LPop(change_list, PopCount).list
    /\ pop_count' = pop_count + 1
    /\ UNCHANGED <<push_calls, next_change, trimmed, notK>>

KNext ==
    \/ \E c \in Pushers : PushRpush(c)
    \/ \E c \in Pushers : PushLtrim(c)
    \/ \E c \in Pushers : PushLtrimError(c)
    \/ GetFileChanges

IsSuffix(s, t) == Len(s) <= Len(t) /\ s = SubSeq(t, Len(t) - Len(s) + 1, Len(t))

\* C21: a push_file_change that completes leaves at most 1000 items in the
\* user's list, whatever pushes and pops of other callers ran between its
\* RPUSH and its LTRIM, and what its trim removed are the oldest items: the
\* list after the trim is the tail of the list before it.
C21_ChangeQueueBound ==
    [][\A c \in Pushers :
        (push_calls[c].pc = "ltrim" /\ push_calls'[c].result = "Ok")
            => /\ Len(change_list') <= ChangeQueueLimit
               /\ IsSuffix(change_list', change_list)
               /\ \A i \in 1..Len(trimmed') : \A j \in 1..Len(change_list') :
                      trimmed'[i] < change_list'[j]]_vars

\* Two pushes appended before either trimmed, and the trim that completed
\* removed both of the oldest items.
C21_Witness ==
    /\ Len(trimmed) >= 2
    /\ \E c \in Pushers : push_calls[c].result = "Ok"
    /\ Len(change_list) = ChangeQueueLimit

(***************************************************************************)
(* server grpc/notification_service.rs, the notify functions of            *)
(* grpc/sync_service.rs and cache.rs: the online-device set of one user,   *)
(* the fan-out of change notifications through the user's change queue,    *)
(* and the subscribe and heartbeat tasks that pop it.                      *)
(***************************************************************************)
MaxChanges == 2

MaxSeconds == 70

MaxOnlineTime == 2700

\* conn.expire(&key, 1800)
OnlineTtl == 1800

\* last_activity.elapsed() > Duration::from_secs(30)
HeartbeatTimeout == 30

notG == <<wVars, sVars, rVars, eVars, dVars, qVars, nVars, xVars, pVars, tVars, jVars, cVars, fVars, kVars, uVars, aVars, mVars>>

Devices == {"d1", "d2"}

GPaths == {"a.md", "b.json"}

\* No time yet: a key without TTL, a device that has not called in.
Never == -1

\* req.file_patterns of a subscription
FilePatterns == {<<>>, <<"*.md">>}

\* cache.rs FileChangeNotification (change_type and timestamp left out)
FileChangeNotification(file_path, device_id) ==
    [file_path |-> file_path, device_id |-> device_id]

SubClosed == [pc |-> "closed", tx_closed |-> FALSE, file_patterns |-> <<>>]

HbClosed == [pc |-> "closed", last_activity |-> 0]

GInit ==
    /\ g_now = 0
    /\ online_set = {}
    /\ online_expire_at = Never
    /\ last_online = [d \in Devices |-> Never]
    /\ change_queue = <<>>
    /\ pushed_count = 0
    /\ sub = [d \in Devices |-> SubClosed]
    /\ hb = [d \in Devices |-> HbClosed]
    /\ delivered = [d \in Devices |-> {}]

GIdle == GInit

\* Redis drops a key when its TTL has run out.
KeyExpired == online_expire_at # Never /\ g_now >= online_expire_at

\* SMEMBERS device:online:<user>
OnlineMembers == IF KeyExpired THEN {} ELSE online_set

\* Cache::get_online_devices
GetOnlineDevices == OnlineMembers

\* The key's TTL after SREM: an emptied set is deleted with its TTL.
ExpiryOf(members) == IF members = {} \/ KeyExpired THEN Never ELSE online_expire_at

\* Cache::device_online: SADD the device, then EXPIRE the whole key 1800.
DeviceOnline(d) ==
    /\ online_set' = OnlineMembers \cup {d}
    /\ online_expire_at' = g_now + OnlineTtl
    /\ last_online' = [last_online EXCEPT ![d] = g_now]

\* Cache::device_offline: SREM the device.
DeviceOffline(d) ==
    /\ online_set' = OnlineMembers \ {d}
    /\ online_expire_at' = ExpiryOf(OnlineMembers \ {d})
    /\ UNCHANGED last_online

\* glob_match of notification_service.rs for the patterns of the model:
\* "*.md" splits at '*' into "" and ".md".
GlobMatch(pattern, text) ==
    IF pattern = "*" \/ pattern = "**" THEN TRUE
    ELSE IF pattern = "*.md" THEN text \in {"a.md"}
    ELSE pattern = text

\* matches_patterns
MatchesPatterns(file_path, patterns) ==
    \/ patterns = <<>>
    \/ \E i \in 1..Len(patterns) : GlobMatch(patterns[i], file_path)

\* The elements of a sequence.
Range(s) == {s[i] : i \in 1..Len(s)}

\* n copies of a sequence, one after the other.
RECURSIVE Repeat(_, _)
Repeat(s, n) == IF n = 0 THEN <<>> ELSE s \o Repeat(s, n - 1)

\* Cache::push_file_change on a list: RPUSH, then LTRIM -1000 -1.
PushFileChange(list, change) == LTrim(Append(list, change), -ChangeQueueLimit, -1)

RECURSIVE PushFileChanges(_, _)
PushFileChanges(list, changes) ==
    IF changes = <<>> THEN list
    ELSE PushFileChanges(PushFileChange(list, Head(changes)), Tail(changes))

\* subscribe_changes: the stream is created and the task marks the device
\* online.
SubscribeChanges(d, patterns) ==
    /\ sub[d].pc = "closed"
    /\ sub' = [sub EXCEPT ![d] = [pc |-> "open", tx_closed |-> FALSE, file_patterns |-> patterns]]
    /\ DeviceOnline(d)
    /\ UNCHANGED <<g_now, change_queue, pushed_count, hb, delivered, notG>>

\* The client drops the subscription stream.
SubscribeClientClose(d) ==
    /\ sub[d].pc = "open"
    /\ ~sub[d].tx_closed
    /\ sub' = [sub EXCEPT ![d].tx_closed = TRUE]
    /\ UNCHANGED <<g_now, online_set, online_expire_at, last_online, change_queue, pushed_count, hb,
                   delivered, notG>>

\* A variant of the loop that does not look at tx.is_closed().
SubscribeTickUnaware(d) ==
    /\ sub[d].pc = "open"
    /\ LET got == LPop(change_queue, PopCount) IN
       /\ change_queue' = got.list
       /\ delivered' = [delivered EXCEPT ![d] = @ \cup
              {c \in Range(got.popped) : ~sub[d].tx_closed
                                          /\ MatchesPatterns(c.file_path, sub[d].file_patterns)}]
    /\ UNCHANGED <<online_set, online_expire_at, last_online, sub>>
    /\ UNCHANGED <<g_now, pushed_count, hb, notG>>

\* One turn of the subscribe loop: a closed stream marks the device offline
\* and ends the task; otherwise up to 10 changes are popped and those that
\* match the patterns are sent.
SubscribeTick(d) ==
    /\ sub[d].pc = "open"
    /\ IF sub[d].tx_closed
       THEN /\ DeviceOffline(d)
            /\ sub' = [sub EXCEPT ![d] = SubClosed]
            /\ UNCHANGED <<change_queue, delivered>>
       ELSE LET got == LPop(change_queue, PopCount) IN
            /\ change_queue' = got.list
            /\ delivered' = [delivered EXCEPT ![d] = @ \cup
                   {c \in Range(got.popped) : MatchesPatterns(c.file_path, sub[d].file_patterns)}]
            /\ UNCHANGED <<online_set, online_expire_at, last_online, sub>>
    /\ UNCHANGED <<g_now, pushed_count, hb, notG>>

\* heartbeat: the task starts, marks the device online and waits in
\* stream.message().await.
HeartbeatOpen(d) ==
    /\ hb[d].pc = "closed"
    /\ hb' = [hb EXCEPT ![d] = [pc |-> "await", last_activity |-> g_now]]
    /\ DeviceOnline(d)
    /\ UNCHANGED <<g_now, change_queue, pushed_count, sub, delivered, notG>>

\* Ok(Some(heartbeat)): last_activity is reset, up to 10 changes are popped
\* and all of them go into the response.
HeartbeatMessage(d) ==
    /\ hb[d].pc = "await"
    /\ LET got == LPop(change_queue, PopCount) IN
       /\ change_queue' = got.list
       /\ delivered' = [delivered EXCEPT ![d] = @ \cup Range(got.popped)]
    /\ hb' = [hb EXCEPT ![d] = [pc |-> "check", last_activity |-> g_now]]
    /\ UNCHANGED <<g_now, online_set, online_expire_at, last_online, pushed_count, sub, notG>>

\* The check after the match: elapsed() > 30 s leaves the loop, and the
\* device is marked offline; otherwise back to stream.message().await.
HeartbeatCheck(d) ==
    /\ hb[d].pc = "check"
    /\ IF g_now - hb[d].last_activity > HeartbeatTimeout
       THEN /\ hb' = [hb EXCEPT ![d].pc = "closed"]
            /\ DeviceOffline(d)
       ELSE /\ hb' = [hb EXCEPT ![d].pc = "await"]
            /\ UNCHANGED <<online_set, online_expire_at, last_online>>
    /\ UNCHANGED <<g_now, change_queue, pushed_count, sub, delivered, notG>>

\* Ok(None) or Err(e): the client closed the stream or it broke.
HeartbeatClientClose(d) ==
    /\ hb[d].pc = "await"
    /\ hb' = [hb EXCEPT ![d].pc = "closed"]
    /\ DeviceOffline(d)
    /\ UNCHANGED <<g_now, change_queue, pushed_count, sub, delivered, notG>>

\* notify_other_devices at the end of report_changes: one notification per
\* change for every online device other than the caller, all of them pushed
\* on the user's one list and all carrying the caller as device_id.
NotifyOtherDevices(current_device_id, changes) ==
    LET devices == GetOnlineDevices \ {current_device_id}
        notifications == [i \in 1..Len(changes) |->
                             FileChangeNotification(changes[i], current_device_id)]
        all == Repeat(notifications, Cardinality(devices))
    IN /\ pushed_count + Len(all) <= MaxChanges
       /\ change_queue' = PushFileChanges(change_queue, all)
       /\ pushed_count' = pushed_count + Len(all)

\* report_changes of device d (process_file_change is a stub that accepts).
ReportChanges(d, changes) ==
    /\ NotifyOtherDevices(d, changes)
    /\ UNCHANGED <<g_now, online_set, online_expire_at, last_online, sub, hb, delivered, notG>>

\* notify_file_change at the end of an accepted upload_file of device d: one
\* notification, whoever is online.
NotifyFileChange(d, file_path) ==
    /\ pushed_count < MaxChanges
    /\ change_queue' = PushFileChange(change_queue, FileChangeNotification(file_path, d))
    /\ pushed_count' = pushed_count + 1
    /\ UNCHANGED <<g_now, online_set, online_expire_at, last_online, sub, hb, delivered, notG>>

\* Time passes.
Advance(dt, max) ==
    /\ g_now + dt <= max
    /\ g_now' = g_now + dt
    /\ UNCHANGED <<online_set, online_expire_at, last_online, change_queue, pushed_count, sub, hb,
                   delivered, notG>>

ReportBatches == {<<"a.md">>, <<"b.json">>, <<"a.md", "b.json">>}

\* The fan-out, without the passage of time.
GNext ==
    \/ \E d \in Devices, patterns \in FilePatterns : SubscribeChanges(d, patterns)
    \/ \E d \in Devices : SubscribeClientClose(d)
    \/ \E d \in Devices : SubscribeTick(d)
    \/ \E d \in Devices : HeartbeatOpen(d)
    \/ \E d \in Devices : HeartbeatMessage(d)
    \/ \E d \in Devices : HeartbeatCheck(d)
    \/ \E d \in Devices : HeartbeatClientClose(d)
    \/ \E d \in Devices, changes \in ReportBatches : ReportChanges(d, changes)
    \/ \E d \in Devices, p \in GPaths : NotifyFileChange(d, p)

\* The online set as time passes: streams open and close, 15 minutes a step.
GNextOnline ==
    \/ \E d \in Devices : SubscribeChanges(d, <<>>)
    \/ \E d \in Devices : SubscribeClientClose(d)
    \/ \E d \in Devices : SubscribeTick(d)
    \/ \E d \in Devices : HeartbeatOpen(d)
    \/ \E d \in Devices : HeartbeatMessage(d)
    \/ \E d \in Devices : HeartbeatCheck(d)
    \/ \E d \in Devices : HeartbeatClientClose(d)
    \/ Advance(900, MaxOnlineTime)

\* The heartbeat tasks as time passes, 20 seconds a step.
GNextHeartbeat ==
    \/ \E d \in Devices : HeartbeatOpen(d)
    \/ \E d \in Devices : HeartbeatMessage(d)
    \/ \E d \in Devices : HeartbeatCheck(d)
    \/ \E d \in Devices : HeartbeatClientClose(d)
    \/ Advance(20, MaxSeconds)

\* The heartbeat streams alone over 45 minutes, 15 minutes a step.
GNextKeepalive ==
    \/ \E d \in Devices : HeartbeatOpen(d)
    \/ \E d \in Devices : HeartbeatMessage(d)
    \/ \E d \in Devices : HeartbeatCheck(d)
    \/ \E d \in Devices : HeartbeatClientClose(d)
    \/ Advance(900, MaxOnlineTime)

\* The subscription streams and the uploads that feed the change queue.
GNextSubscribe ==
    \/ \E d \in Devices, patterns \in FilePatterns : SubscribeChanges(d, patterns)
    \/ \E d \in Devices : SubscribeClientClose(d)
    \/ \E d \in Devices : SubscribeTick(d)
    \/ \E d \in Devices, p \in GPaths : NotifyFileChange(d, p)

\* C22: a notification produced by a ReportChanges or UploadFile call of
\* device D is never sent on D's own SubscribeChanges or Heartbeat stream.
C22_FanOutExcludesOrigin ==
    \A d \in Devices : \A c \in delivered[d] : c.device_id # d

\* C23: every device in the user's online set has called in itself within
\* the last 30 minutes: one that has been silent for longer is no member,
\* whatever the other devices of the user do.
C23_OnlineTtlPerDevice ==
    \A d \in OnlineMembers :
        last_online[d] # Never /\ g_now - last_online[d] <= OnlineTtl

\* C33: a device whose heartbeat stream is open and whose last inbound
\* heartbeat (or the opening of the stream) is less than the online TTL
\* ago is in the user's online set.
C33_HeartbeatKeepsOnline ==
    \A d \in Devices :
        (hb[d].pc # "closed" /\ g_now - hb[d].last_activity < OnlineTtl)
            => d \in GetOnlineDevices

C35_PopsOnlyMatching ==
    [][Len(change_queue') < Len(change_queue) =>
          \E d \in Devices :
              /\ sub[d].pc = "open"
              /\ \A i \in 1..(Len(change_queue) - Len(change_queue')) :
                     /\ MatchesPatterns(change_queue[i].file_path, sub[d].file_patterns)
                     /\ change_queue[i] \in delivered'[d]]_vars

\* C24: a heartbeat task waiting for the next inbound message has not been
\* waiting for more than 30 seconds: after 30 seconds of silence the stream
\* is closed and the device marked offline, with no further message and no
\* close from the client.
C24_HeartbeatSilenceTimeout ==
    \A d \in Devices :
        g_now - hb[d].last_activity > HeartbeatTimeout
            => hb[d].pc # "await"

(***************************************************************************)
(* server grpc/sync_service.rs upload_file and storage.rs: the stream is   *)
(* read to its end, size and hash are verified, then the blob is put, the  *)
(* version saved, the sync state updated and the change notified, each an  *)
(* await of its own.  save_file_version and update_sync_state are called   *)
(* but not defined in the repository; the version record follows the      *)
(* specification's data model.                                             *)
(***************************************************************************)
MaxUploads == 2

\* const MAX_FILE_SIZE: u64 = 100 * 1024 * 1024
MaxFileSize == 104857600

notU == <<wVars, sVars, rVars, eVars, dVars, qVars, nVars, xVars, pVars, tVars, jVars, cVars, fVars, kVars, gVars, aVars, mVars>>

UploadUser == "u1"

UploadPaths == {"a.md"}

\* The bytes of a chunk; every chunk of the model is one byte long.
ChunkData == {"x", "y"}

\* StorageService::hash_file: the lower-case hex SHA-256 of the bytes,
\* different for different bytes.
HashFile(data) == "sha256(" \o data \o ")"

\* StoragePath::full_path
FullPath(user_id, file_hash) == "users/" \o user_id \o "/files/" \o file_hash \o ".data"

\* The metadata message: file_path, file_hash, file_size, version.
UploadMetadata ==
    [file_path : UploadPaths, file_hash : {HashFile("x"), HashFile("xy")},
     file_size : {1, 2, MaxFileSize + 1}, version : {0, 1}]

NoMetadata == [file_path |-> "", file_hash |-> "", file_size |-> 0, version |-> 0]

\* UploadFileRequest.payload
Metadata(meta) == [payload |-> "Metadata", meta |-> meta, data |-> ""]

Chunk(data) == [payload |-> "Chunk", meta |-> NoMetadata, data |-> data]

\* The messages after the first: one or two chunks, or a chunk and a
\* second metadata message.
UploadTails ==
    {<<Chunk(a)>> : a \in ChunkData}
        \cup {<<Chunk("x"), Chunk(b)>> : b \in ChunkData}
        \cup {<<Chunk("x"), Metadata(NoMetadata), Chunk("y")>>}

\* The request streams: metadata first, or a chunk first, or nothing.
UploadStreams ==
    {<<Metadata(meta)>> \o tail : meta \in UploadMetadata, tail \in UploadTails}
        \cup {<<>>, <<Chunk("x")>>}

UploadIdle ==
    [pc |-> "idle", metadata |-> NoMetadata, file_data |-> "", received_bytes |-> 0,
     file_hash |-> "", version_id |-> 0, stored |-> FALSE, notified |-> FALSE,
     result |-> "none"]

UInit ==
    /\ upload_calls = [d \in Devices |-> UploadIdle]
    /\ blobs = {}
    /\ versions = <<>>
    /\ upload_changes = <<>>
    /\ upload_responses = <<>>
    /\ uploads_started = 0

UIdle == UInit

\* The while loop over the stream: chunk data is appended and counted, a
\* second metadata message and an empty payload are skipped.
RECURSIVE Accumulate(_)
Accumulate(messages) ==
    IF messages = <<>> THEN [file_data |-> "", received_bytes |-> 0]
    ELSE LET rest == Accumulate(Tail(messages)) IN
         IF Head(messages).payload = "Chunk"
         THEN [file_data |-> Head(messages).data \o rest.file_data,
               received_bytes |-> 1 + rest.received_bytes]
         ELSE rest

\* A variant of the verification that compares the sizes only.
VerifyUploadSizeOnly(metadata, file_data, received_bytes) ==
    IF received_bytes # metadata.file_size THEN "data_loss" ELSE "ok"

\* upload_file, the two checks after the stream has ended: received_bytes
\* against metadata.file_size, hash_file(&file_data) against
\* metadata.file_hash.
VerifyUpload(metadata, file_data, received_bytes) ==
    IF received_bytes # metadata.file_size THEN "data_loss"
    ELSE IF HashFile(file_data) # metadata.file_hash THEN "data_loss"
    ELSE "ok"

\* upload_file from the first message to the verification.
UploadFileReceive(d, stream) ==
    /\ upload_calls[d].pc = "idle"
    /\ uploads_started < MaxUploads
    /\ uploads_started' = uploads_started + 1
    /\ LET first_is_metadata == stream # <<>> /\ Head(stream).payload = "Metadata"
           metadata == IF first_is_metadata THEN Head(stream).meta ELSE NoMetadata
           got == IF first_is_metadata THEN Accumulate(Tail(stream)) ELSE Accumulate(<<>>)
           early == IF ~first_is_metadata THEN "invalid_argument"
                    ELSE IF metadata.file_size > MaxFileSize THEN "invalid_argument"
                    ELSE "none"
           verdict == IF early # "none" THEN early
                      ELSE VerifyUpload(metadata, got.file_data, got.received_bytes)
           read == early = "none"
       IN upload_calls' = [upload_calls EXCEPT ![d] =
              [UploadIdle EXCEPT !.pc = IF verdict = "ok" THEN "put" ELSE "done",
                                 !.metadata = metadata,
                                 !.file_data = IF read THEN got.file_data ELSE "",
                                 !.received_bytes = IF read THEN got.received_bytes ELSE 0,
                                 !.file_hash = IF read THEN HashFile(got.file_data) ELSE "",
                                 !.result = IF verdict = "ok" THEN "none" ELSE verdict]]
    /\ UNCHANGED <<blobs, versions, upload_changes, upload_responses, notU>>

\* StorageService::upload_file: put_object under full_path(user, file_hash);
\* an error of the store becomes Status::internal.
StorageUploadFile(d, ok) ==
    /\ upload_calls[d].pc = "put"
    /\ LET call == upload_calls[d]
           key == FullPath(UploadUser, call.file_hash)
       IN IF ok
          THEN /\ blobs' = {b \in blobs : b.key # key} \cup {[key |-> key, data |-> call.file_data]}
               /\ upload_calls' = [upload_calls EXCEPT ![d].pc = "save", ![d].stored = TRUE]
          ELSE /\ blobs' = blobs
               /\ upload_calls' = [upload_calls EXCEPT ![d].pc = "done", ![d].result = "internal"]
    /\ UNCHANGED <<versions, upload_changes, upload_responses, uploads_started, notU>>

\* The version records of a path.
VersionsOf(file_path) == SelectSeq(versions, LAMBDA v : v.file_path = file_path)

\* save_file_version, as the data model of the specification has it: a new
\* record whose parent is the latest version of the path and whose number
\* is the parent's plus one.
SaveFileVersion(d, ok) ==
    /\ upload_calls[d].pc = "save"
    /\ LET call == upload_calls[d]
           earlier == VersionsOf(call.metadata.file_path)
           parent == IF earlier = <<>> THEN 0 ELSE earlier[Len(earlier)].id
           number == IF earlier = <<>> THEN 1 ELSE earlier[Len(earlier)].version_number + 1
           id == Len(versions) + 1
       IN IF ok
          THEN /\ versions' = Append(versions,
                      [id |-> id, file_path |-> call.metadata.file_path,
                       file_hash |-> call.file_hash, device_id |-> d,
                       parent_version_id |-> parent, version_number |-> number])
               /\ upload_calls' = [upload_calls EXCEPT ![d].pc = "state", ![d].version_id = id]
          ELSE /\ versions' = versions
               /\ upload_calls' = [upload_calls EXCEPT ![d].pc = "done", ![d].result = "internal"]
    /\ UNCHANGED <<blobs, upload_changes, upload_responses, uploads_started, notU>>

\* update_sync_state(.., SyncStatus::Synced): on an error the call ends with
\* Status::internal, the blob and the version stay.
UpdateSyncStateSynced(d, ok) ==
    /\ upload_calls[d].pc = "state"
    /\ upload_calls' = [upload_calls EXCEPT ![d].pc = IF ok THEN "notify" ELSE "done",
                                            ![d].result = IF ok THEN "none" ELSE "internal"]
    /\ UNCHANGED <<blobs, versions, upload_changes, upload_responses, uploads_started, notU>>

\* notify_file_change and the response: version_number is the version of
\* the metadata message plus one.
UploadFileRespond(d) ==
    /\ upload_calls[d].pc = "notify"
    /\ LET call == upload_calls[d] IN
       /\ upload_changes' = PushFileChange(upload_changes,
                                FileChangeNotification(call.metadata.file_path, d))
       /\ upload_responses' = Append(upload_responses,
              [device_id |-> d, file_path |-> call.metadata.file_path,
               version_id |-> call.version_id,
               version_number |-> call.metadata.version + 1])
       /\ upload_calls' = [upload_calls EXCEPT ![d].pc = "done", ![d].notified = TRUE,
                                               ![d].result = "Ok"]
    /\ UNCHANGED <<blobs, versions, uploads_started, notU>>

\* The client reads the result; the device may call again.
UploadFileReturn(d) ==
    /\ upload_calls[d].pc = "done"
    /\ uploads_started < MaxUploads
    /\ upload_calls' = [upload_calls EXCEPT ![d] = UploadIdle]
    /\ UNCHANGED <<blobs, versions, upload_changes, upload_responses, uploads_started, notU>>

UNext ==
    \/ \E d \in Devices, stream \in UploadStreams : UploadFileReceive(d, stream)
    \/ \E d \in Devices, ok \in BOOLEAN : StorageUploadFile(d, ok)
    \/ \E d \in Devices, ok \in BOOLEAN : SaveFileVersion(d, ok)
    \/ \E d \in Devices, ok \in BOOLEAN : UpdateSyncStateSynced(d, ok)
    \/ \E d \in Devices : UploadFileRespond(d)
    \/ \E d \in Devices : UploadFileReturn(d)

\* The call has read its stream to the end.
Accumulated(call) ==
    call.pc # "idle" /\ call.metadata # NoMetadata /\ call.metadata.file_size <= MaxFileSize

\* C25: a call whose accumulated chunks do not hash to the hash of its
\* metadata message fails with data-loss and has stored no blob, saved no
\* version and pushed no notification; and every blob in the store lies
\* under users/<u>/files/<h>.data with h the SHA-256 of its bytes.
C25_UploadIntegrity ==
    /\ \A d \in Devices :
        LET call == upload_calls[d] IN
        (Accumulated(call) /\ HashFile(call.file_data) # call.metadata.file_hash)
            => /\ call.result = "data_loss"
               /\ ~call.stored /\ call.version_id = 0 /\ ~call.notified
    /\ \A b \in blobs : b.key = FullPath(UploadUser, HashFile(b.data))

\* A call failed on the hash alone (the sizes agreed) while the store holds
\* a blob of an accepted upload.
C25_Witness ==
    /\ \E d \in Devices :
        LET call == upload_calls[d] IN
        /\ call.result = "data_loss"
        /\ call.received_bytes = call.metadata.file_size
        /\ HashFile(call.file_data) # call.metadata.file_hash
    /\ blobs # {}
    /\ versions # <<>>

\* C26: the version numbers that the accepted uploads of one path are
\* answered with increase strictly from each accepted upload to the next,
\* so no two of them get the same number.
C26_VersionNumbersIncrease ==
    \A i, j \in 1..Len(upload_responses) :
        (i < j /\ upload_responses[i].file_path = upload_responses[j].file_path)
            => upload_responses[i].version_number < upload_responses[j].version_number

(***************************************************************************)
(* watcher.rs FileWatcher::spawn: the callback given to the notify watcher *)
(* and the batch processor task, which share the EventDeduplicator of the  *)
(* watcher section above behind a mutex.                                   *)
(***************************************************************************)
MaxOsEvents == 2

notA == <<sVars, rVars, eVars, dVars, qVars, nVars, xVars, pVars, tVars, jVars, cVars, fVars, kVars, gVars, uVars, mVars>>

\* notify::EventKind
EventKinds == {"Create", "Modify", "Remove", "Access"}

\* What the callback is called with: Ok(event) for one path, or Err.
OsEvents == [ok : BOOLEAN, path : WPaths, kind : EventKinds, is_dir : BOOLEAN]

AInit ==
    /\ os_events = <<>>
    /\ dedup_lock = "free"

AIdle == AInit

\* EventDeduplicator::should_process_event
ShouldProcessEvent(kind) == kind \in {"Create", "Modify", "Remove"}

\* The closure passed to recommended_watcher: for Ok(event) it tries the
\* lock and, holding it, writes a log line; the guard is dropped again.
\* handle_event is not called on either branch.
WatcherCallback(res) ==
    /\ Len(os_events) < MaxOsEvents
    /\ os_events' = Append(os_events, [res EXCEPT !.ok = res.ok /\ dedup_lock = "free"])
    /\ UNCHANGED <<dedup_lock, wVars, notA>>

\* The batch processor task takes the lock at a tick of its interval.
BatchProcessorLock ==
    /\ dedup_lock = "free"
    /\ dedup_lock' = "batch"
    /\ UNCHANGED <<os_events, wVars, notA>>

\* flush_batch under the lock: batch_queue is never filled, so nothing is
\* sent; the guard is dropped at the end of the loop body.
BatchProcessorFlush ==
    /\ dedup_lock = "batch"
    /\ dedup_lock' = "free"
    /\ UNCHANGED <<os_events, wVars, notA>>

ANext ==
    \/ \E res \in OsEvents : WatcherCallback(res)
    \/ BatchProcessorLock
    \/ BatchProcessorFlush
    \/ Tick

\* C27: every created, modified or removed event for a file that the
\* callback has received has been handed to the deduplicator, which holds a
\* debounce timer for it (sleeping, fired, or cancelled by a later event of
\* the path); without that timer the event can never be sent downstream.
C27_WatcherDelivery ==
    \A i \in DOMAIN os_events :
        LET e == os_events[i] IN
        (e.ok /\ ~e.is_dir /\ ShouldProcessEvent(e.kind))
            => \E t \in DOMAIN timers :
                   timers[t].path = e.path /\ timers[t].event_type = e.kind

(***************************************************************************)
(* connection_pool.rs: ConnectionPoolManager::get_or_create_pool and       *)
(* shutdown_all.  The map is behind a tokio RwLock, which is fair: a read  *)
(* is granted when no writer holds the lock or waits for it, a write when  *)
(* no guard is held.  A pool is known by the number it was created under.  *)
(***************************************************************************)
MaxPoolCalls == 3

notM == <<wVars, sVars, rVars, eVars, dVars, qVars, nVars, xVars, pVars, tVars, jVars, cVars, fVars, kVars, gVars, uVars, aVars>>

Getters == {"g1", "g2", "g3"}

MgrCallers == Getters \cup {"shutdown_all"}

Addresses == {"s1", "s2"}

PoolIds == 1..MaxPoolCalls

MgrCallIdle == [pc |-> "idle", address |-> None, pool |-> 0, calls |-> 0, todo |-> {}]

MInit ==
    /\ pools = [a \in Addresses |-> 0]
    /\ pools_readers = {}
    /\ mgr_calls = [c \in MgrCallers |-> MgrCallIdle]
    /\ pools_created = [i \in PoolIds |-> None]
    /\ health_checks = [i \in PoolIds |-> 0]
    /\ pools_shutdown = {}

MIdle ==
    /\ pools = [a \in Addresses |-> 0]
    /\ pools_readers = {}
    /\ mgr_calls = [c \in MgrCallers |-> MgrCallIdle]
    /\ pools_created = [i \in PoolIds |-> None]
    /\ health_checks = [i \in PoolIds |-> 0]
    /\ pools_shutdown = {}

\* The calls of get_or_create_pool begun so far.
PoolCallsBegun == mgr_calls["g1"].calls + mgr_calls["g2"].calls + mgr_calls["g3"].calls

\* Some caller waits in pools.write().
WriterWaiting == \E c \in MgrCallers : mgr_calls[c].pc = "wait_write"

\* The number of pools created so far.
PoolsCreated == Cardinality({i \in PoolIds : pools_created[i] # None})

\* Ok(pool) of get_or_create_pool.
ReturnPool(c, pool) == [mgr_calls[c] EXCEPT !.pc = "returned", !.pool = pool]

\* get_or_create_pool, lines 433-438: the lookup under the read guard.
GetOrCreateRead(c, address) ==
    /\ mgr_calls[c].pc \in {"idle", "returned"}
    /\ PoolCallsBegun < MaxPoolCalls
    /\ ~WriterWaiting
    /\ LET call == [mgr_calls[c] EXCEPT !.address = address, !.calls = @ + 1]
       IN mgr_calls' = [mgr_calls EXCEPT ![c] =
              IF pools[address] # 0
              THEN [call EXCEPT !.pc = "returned", !.pool = pools[address]]
              ELSE [call EXCEPT !.pc = "missed", !.pool = 0]]
    /\ UNCHANGED <<pools, pools_readers, pools_created, health_checks, pools_shutdown>>
    /\ UNCHANGED notM

\* get_or_create_pool, line 441: the read guard is gone and pools.write()
\* is called.
GetOrCreateWait(c) ==
    /\ mgr_calls[c].pc = "missed"
    /\ mgr_calls' = [mgr_calls EXCEPT ![c].pc = "wait_write"]
    /\ UNCHANGED <<pools, pools_readers, pools_created, health_checks, pools_shutdown>>
    /\ UNCHANGED notM

\* A variant without the second lookup under the write guard.
GetOrCreateWriteUnchecked(c) ==
    LET address == mgr_calls[c].address
        pool == PoolsCreated + 1
    IN /\ pools_created' = [pools_created EXCEPT ![pool] = address]
       /\ health_checks' = [health_checks EXCEPT ![pool] = @ + 1]
       /\ pools' = [pools EXCEPT ![address] = pool]
       /\ mgr_calls' = [mgr_calls EXCEPT ![c] = ReturnPool(c, pool)]

\* get_or_create_pool, lines 441-458: under the write guard look again,
\* and if the address has no pool create one, spawn its health check and
\* insert it.
GetOrCreateWrite(c) ==
    LET address == mgr_calls[c].address
        pool == PoolsCreated + 1
    IN IF pools[address] # 0
       THEN /\ mgr_calls' = [mgr_calls EXCEPT ![c] = ReturnPool(c, pools[address])]
            /\ UNCHANGED <<pools, pools_created, health_checks>>
       ELSE /\ pools_created' = [pools_created EXCEPT ![pool] = address]
            /\ health_checks' = [health_checks EXCEPT ![pool] = @ + 1]
            /\ pools' = [pools EXCEPT ![address] = pool]
            /\ mgr_calls' = [mgr_calls EXCEPT ![c] = ReturnPool(c, pool)]

\* shutdown_all, line 469: under the write guard the map is cleared, and
\* the guards are dropped at the return.
ShutdownAllClear(c) ==
    /\ pools' = [a \in Addresses |-> 0]
    /\ mgr_calls' = [mgr_calls EXCEPT ![c].pc = "returned"]
    /\ UNCHANGED <<pools_created, health_checks>>

\* pools.write().await is granted to caller c, who runs the code it guards.
PoolsWrite(c) ==
    /\ mgr_calls[c].pc = "wait_write"
    /\ pools_readers = {}
    /\ IF c = "shutdown_all" THEN ShutdownAllClear(c) ELSE GetOrCreateWrite(c)
    /\ UNCHANGED <<pools_readers, pools_shutdown>>
    /\ UNCHANGED notM

\* shutdown_all, line 463: the read guard is taken and kept in a local.
ShutdownAllRead ==
    /\ mgr_calls["shutdown_all"].pc = "idle"
    /\ ~WriterWaiting
    /\ pools_readers' = pools_readers \cup {"shutdown_all"}
    /\ mgr_calls' = [mgr_calls EXCEPT !["shutdown_all"] =
           [MgrCallIdle EXCEPT !.pc = "pools",
                               !.todo = {pools[a] : a \in Addresses} \ {0}]]
    /\ UNCHANGED <<pools, pools_created, health_checks, pools_shutdown>>
    /\ UNCHANGED notM

\* shutdown_all, lines 465-467: pool.shutdown() of the next pool.
ShutdownAllPool(pool) ==
    /\ mgr_calls["shutdown_all"].pc = "pools"
    /\ pool \in mgr_calls["shutdown_all"].todo
    /\ pools_shutdown' = pools_shutdown \cup {pool}
    /\ mgr_calls' = [mgr_calls EXCEPT !["shutdown_all"].todo = @ \ {pool}]
    /\ UNCHANGED <<pools, pools_readers, pools_created, health_checks>>
    /\ UNCHANGED notM

\* shutdown_all, line 469: the loop is over and pools.write() is called,
\* with the read guard of line 463 still alive.
ShutdownAllWait ==
    /\ mgr_calls["shutdown_all"].pc = "pools"
    /\ mgr_calls["shutdown_all"].todo = {}
    /\ mgr_calls' = [mgr_calls EXCEPT !["shutdown_all"].pc = "wait_write"]
    /\ UNCHANGED <<pools, pools_readers, pools_created, health_checks, pools_shutdown>>
    /\ UNCHANGED notM

\* The concurrent callers of get_or_create_pool.
MNext ==
    \/ \E c \in Getters, a \in Addresses : GetOrCreateRead(c, a)
    \/ \E c \in Getters : GetOrCreateWait(c)
    \/ \E c \in Getters : PoolsWrite(c)

\* The callers of get_or_create_pool and one caller of shutdown_all.
MNextShutdown ==
    \/ \E c \in Getters, a \in Addresses : GetOrCreateRead(c, a)
    \/ \E c \in Getters : GetOrCreateWait(c)
    \/ \E c \in MgrCallers : PoolsWrite(c)
    \/ ShutdownAllRead
    \/ \E pool \in PoolIds : ShutdownAllPool(pool)
    \/ ShutdownAllWait

\* C39: a call of shutdown_all that has begun returns, and when it has
\* returned every pool that was in the map has been shut down and the map
\* is empty.
C39_ShutdownAllTerminates ==
    (mgr_calls["shutdown_all"].pc = "pools")
        ~> (/\ mgr_calls["shutdown_all"].pc = "returned"
            /\ \A a \in Addresses : pools[a] = 0
            /\ \A i \in PoolIds : pools_created[i] # None => i \in pools_shutdown)

\* C31: whatever the interleaving of get_or_create_pool calls, each server
\* address has had at most one ConnectionPool created for it, with exactly
\* one health-check task, and every call that returned for the address
\* returned that pool.
C31_PoolMemoization ==
    /\ \A i, j \in PoolIds :
           (pools_created[i] # None /\ pools_created[i] = pools_created[j]) => i = j
    /\ \A i \in PoolIds :
           health_checks[i] = (IF pools_created[i] # None THEN 1 ELSE 0)
    /\ \A c \in Getters :
           mgr_calls[c].pc = "returned" =>
               /\ mgr_calls[c].pool # 0
               /\ mgr_calls[c].pool = pools[mgr_calls[c].address]
               /\ pools_created[mgr_calls[c].pool] = mgr_calls[c].address

\* Two callers missed the same address under the read guard; one has
\* created the pool and returned it, the other still waits for the write
\* guard.
C31_Witness ==
    /\ mgr_calls["g1"].pc = "returned"
    /\ mgr_calls["g1"].address = "s1"
    /\ mgr_calls["g2"].pc = "wait_write"
    /\ mgr_calls["g2"].address = "s1"
    /\ pools["s1"] = mgr_calls["g1"].pool

(***************************************************************************)
(* Specifications                                                          *)
(***************************************************************************)
\* Every component outside cs is in its idle state.
IdleExcept(cs) ==
    /\ IF "W" \in cs THEN TRUE ELSE WIdle
    /\ IF "S" \in cs THEN TRUE ELSE SIdle
    /\ IF "R" \in cs THEN TRUE ELSE RIdle
    /\ IF "E" \in cs THEN TRUE ELSE EIdle
    /\ IF "D" \in cs THEN TRUE ELSE DIdle
    /\ IF "Q" \in cs THEN TRUE ELSE QIdle
    /\ IF "N" \in cs THEN TRUE ELSE NIdle
    /\ IF "X" \in cs THEN TRUE ELSE XIdle
    /\ IF "P" \in cs THEN TRUE ELSE PIdle
    /\ IF "T" \in cs THEN TRUE ELSE TIdle
    /\ IF "J" \in cs THEN TRUE ELSE JIdle
    /\ IF "C" \in cs THEN TRUE ELSE CIdle
    /\ IF "F" \in cs THEN TRUE ELSE FIdle
    /\ IF "K" \in cs THEN TRUE ELSE KIdle
    /\ IF "G" \in cs THEN TRUE ELSE GIdle
    /\ IF "U" \in cs THEN TRUE ELSE UIdle
    /\ IF "A" \in cs THEN TRUE ELSE AIdle
    /\ IF "M" \in cs THEN TRUE ELSE MIdle

Idle(c) == IdleExcept({c})

InitWatcher == WInit /\ Idle("W")

SpecWatcher == InitWatcher /\ [][WNext]_vars

InitSync == SInit /\ Idle("S")

SpecSync == InitSync /\ [][SNext]_vars

\* The auto-merge switches decide nothing for the paths of the model.
InitStatus ==
    /\ InitSync
    /\ ~resolver.auto_merge_text
    /\ ~resolver.auto_merge_structured

SpecStatus == InitStatus /\ [][StatusNext]_vars

InitRules == RInit /\ Idle("R")

SpecRules == InitRules /\ [][RNext]_vars

InitDelay == DInit /\ Idle("D")

SpecDelay == InitDelay /\ [][DNext]_vars

InitRetry == EInit /\ Idle("E")

\* The runtime polls the future of execute, the operation returns and the
\* timer of a sleep fires: a step of execute that can be taken is taken.
SpecRetry == InitRetry /\ [][ENext]_vars /\ WF_vars(ENext)

InitQueue == QInit /\ Idle("Q")

SpecQueue == InitQueue /\ [][QNext]_vars

InitNetwork == NInit /\ Idle("N")

SpecNetwork == InitNetwork /\ [][NNext]_vars

InitRecovery == NInit /\ XInit /\ Idle("N")

SpecRecovery == InitRecovery /\ [][XNext]_vars

InitPool == PInit /\ Idle("P")

SpecPool == InitPool /\ [][PNext]_vars

InitTransfer == TInit /\ Idle("T")

SpecTransfer == InitTransfer /\ [][TNext]_vars

InitJson == JInit /\ Idle("J")

SpecJson == InitJson /\ [][JNext]_vars

InitThreeWay ==
    /\ \E base \in ThreeWayObjects, local \in ThreeWayObjects, remote \in ThreeWayObjects :
           json_merge = [called |-> FALSE, base |-> base, local |-> local,
                         remote |-> remote, merged |-> Number(1)]
    /\ Idle("J")

SpecThreeWay == InitThreeWay /\ [][ThreeWayNext]_vars

InitResolve == CInit /\ Idle("C")

SpecResolve == InitResolve /\ [][CNext]_vars

InitFilter == FInit /\ SIdle /\ IdleExcept({"S", "F"})

SpecFilter == InitFilter /\ [][FNext]_vars

InitChanges == KInit /\ Idle("K")

SpecChanges == InitChanges /\ [][KNext]_vars

InitFanout == GInit /\ Idle("G")

SpecFanout == InitFanout /\ [][GNext]_vars

InitOnline == GInit /\ Idle("G")

SpecOnline == InitOnline /\ [][GNextOnline]_vars

InitKeepalive == GInit /\ Idle("G")

SpecKeepalive == InitKeepalive /\ [][GNextKeepalive]_vars

InitSubscribe == GInit /\ Idle("G")

\* The interval of a subscription task ticks every second: a turn of the
\* loop that can be taken is taken.
SpecSubscribe ==
    /\ InitSubscribe
    /\ [][GNextSubscribe]_vars
    /\ \A d \in Devices : WF_vars(SubscribeTick(d))

InitHeartbeat == GInit /\ Idle("G")

SpecHeartbeat == InitHeartbeat /\ [][GNextHeartbeat]_vars

InitUpload == UInit /\ Idle("U")

SpecUpload == InitUpload /\ [][UNext]_vars

InitCallback == WInit /\ AInit /\ IdleExcept({"W", "A"})

SpecCallback == InitCallback /\ [][ANext]_vars

InitFlush == NInit /\ Idle("N")

SpecFlush == InitFlush /\ [][FlushNext]_vars

InitManager == MInit /\ Idle("M")

SpecManager == InitManager /\ [][MNext]_vars

InitShutdownAll == MInit /\ Idle("M")

\* The runtime polls every task that can go on: a step of a caller that
\* can be taken is taken.
SpecShutdownAll == InitShutdownAll /\ [][MNextShutdown]_vars /\ WF_vars(MNextShutdown)

====
